---- MODULE Spec2Model ----
(***************************************************************************)
(* Model of the InProd "run changesets" action (src/src/index.js).         *)
(*                                                                         *)
(* The action resolves a list of changeset files, and for each file        *)
(* submits it to the remote service (Validate and/or Execute), polls the   *)
(* returned task until it reaches a terminal status or the timeout, and    *)
(* finally aggregates the per-file results into the `status` and `result`  *)
(* outputs.  Every awaited remote request is split into the step that      *)
(* issues it and the step that receives its response or fault.             *)
(***************************************************************************)
EXTENDS Integers, Sequences, FiniteSets, TLC

(* ------------------------------ bounds --------------------------------- *)

\* largest number of files the pattern resolves to
MaxFiles == 2

\* largest polling_timeout_minutes input tried (negative one is tried too)
MaxTimeoutMinutes == 1

\* longest result list handed to worstStatus in the pure-function check
MaxResults == 3

\* largest timeout, in seconds, of a pollTask call checked on its own
MaxPollSeconds == 16

\* most entries in the variable collection of a document handed to inject
MaxEntries == 3

\* most files a glob pattern matches in the check of resolveFiles on its own
MaxMatches == 3

\* most lines of a changeset_variables input in the check of its parsing on its own
MaxLines == 2

(* ------------------------- values of the program ----------------------- *)

\* an absent (undefined / null) JavaScript value
Absent == "<absent>"

\* a present JavaScript value that is falsy (0, "", false) and not nullish
Falsy == "<falsy>"

\* the empty object {}
EmptyObject == "{}"

\* JavaScript truthiness of the modelled values
Truthy(v) == v \notin {Absent, Falsy, ""}

\* a || b
OrElse(a, b) == IF Truthy(a) THEN a ELSE b

\* const pollInterval = 5; // seconds
pollInterval == 5

\* statuses a FileResult can carry
Statuses == {"SUCCESS", "FAILURE", "TIMEOUT", "REVOKED", "SUBMITTED"}

\* a status string outside the priority table
UnknownStatus == "UNKNOWN"

\* const STATUS_PRIORITY = { FAILURE: 0, TIMEOUT: 1, REVOKED: 2, SUBMITTED: 3, SUCCESS: 4 };
STATUS_PRIORITY ==
  [s \in Statuses |->
     CASE s = "FAILURE" -> 0
       [] s = "TIMEOUT" -> 1
       [] s = "REVOKED" -> 2
       [] s = "SUBMITTED" -> 3
       [] s = "SUCCESS" -> 4]

\* STATUS_PRIORITY[s] ?? 99
PriorityOf(s) == IF s \in DOMAIN STATUS_PRIORITY THEN STATUS_PRIORITY[s] ELSE 99

\* the reducer of worstStatus: one step of results.reduce
\* faulty variant: the comparison reversed
WorseOf_Swapped(worst, s) == IF PriorityOf(s) > PriorityOf(worst) THEN s ELSE worst

WorseOf(worst, s) == IF PriorityOf(s) < PriorityOf(worst) THEN s ELSE worst

RECURSIVE reduceFrom(_, _, _)
reduceFrom(statuses, k, worst) ==
  IF k > Len(statuses) THEN worst
  ELSE reduceFrom(statuses, k + 1, WorseOf(worst, statuses[k]))

\* function worstStatus(results), on the list of the results' statuses
worstStatus(statuses) == reduceFrom(statuses, 1, "SUCCESS")

\* the status column of a result list
StatusesOf(rs) == [k \in 1..Len(rs) |-> rs[k].status]

(* --------------------------- remote responses -------------------------- *)

\* what a submission POST can come back with
SubmitResponses ==
  { "fault",          \* fetch rejects (network error)
    "http_error",     \* response.ok is false
    "bad_json",       \* response.json() rejects
    "no_envelope",    \* data or data.attributes missing
    "empty_task_id",  \* task_id missing, empty or blank
    "ok" }            \* data.attributes.task_id is a non-blank string

\* result payloads of a status response
PollResults == {Absent, Falsy, "{is_valid:true}", "{is_valid:false}"}

\* error payloads of a status response
PollErrors == {Absent, "", "remote error"}

\* what a status GET can come back with
PollResponses ==
  [kind : {"fault"}, message : {"fetch failed", "Poll failed: socket hang up"}]
  \cup [kind : {"http_error"}]
  \cup [kind : {"malformed"}]
  \cup [kind : {"ok"}, status : {"SUCCESS"}, result : PollResults]
  \cup [kind : {"ok"}, status : {"FAILURE"}, error : PollErrors]
  \cup [kind : {"ok"}, status : {"REVOKED", "PENDING", "STARTED", "RETRY", "UNKNOWN"}]

\* String.prototype.includes
includes(m, needle) ==
  \E k \in 1..(Len(m) - Len(needle) + 1) : SubSeq(m, k, k + Len(needle) - 1) = needle

\* faulty variant: the catch rethrows whatever it caught
IncludesPollFailed_Always(m) == TRUE

\* faulty variant: the catch never rethrows
IncludesPollFailed_Never(m) == FALSE

\* e.message && e.message.includes('Poll failed')
IncludesPollFailed(m) == m # "" /\ includes(m, "Poll failed")

\* faulty variant: the is_valid test left out
is_valid_AlwaysTrue(r) == "true"

\* result.is_valid
is_valid(r) == IF r = "{is_valid:true}" THEN "true" ELSE IF r = "{is_valid:false}" THEN Falsy ELSE Absent

(* ------------------------------- state --------------------------------- *)

VARIABLES
  inputs,                 \* what core.getInput / process.env / the file system hold
  executionStrategy,      \* 'per_file' | 'validate_first'
  validateBeforeExecute,  \* input validate_before_execute !== 'false'
  validateOnly,           \* input validate_only === 'true'
  failFast,               \* input fail_fast === 'true'
  pollingTimeoutSeconds,  \* pollingTimeoutMinutes * 60
  filePaths,              \* resolved files, in processing order
  pc,                     \* position of the single thread of control
  phase,                  \* which loop of run() is running
  i,                      \* loop index (1-based)
  options,                \* options passed to processSingleFile
  op,                     \* operation under way: "validate" | "execute"
  elapsed,                \* pollTask's elapsed (0 while no pollTask call is active)
  opResult,               \* value returned by pollTask / validateFile / executeFile
  thrown,                 \* message of the error being propagated
  results,                \* const results = []
  outputs,                \* core.setOutput calls so far, in order
  failedMsg,              \* argument of core.setFailed, Absent if not called
  inflight,               \* remote requests issued and not yet settled
  submitLog,              \* ghost: submission POSTs issued, in order
  submitReplies,          \* ghost: what each of them came back with, in order
  polled,                 \* ghost: operations for which a status GET was issued
  attempts,               \* ghost: files handed to validateFile/processSingleFile
  opLog,                  \* ghost: how each validateFile/executeFile call ended
  wsInput,                \* argument of a direct worstStatus call
  wsOutput,               \* its return value
  pollLog,                \* direct pollTask call: what each status GET came back with
  pollCount,              \* direct pollTask call: status GETs issued
  callArgs,               \* arguments of a function called on its own
  callResult              \* what that call returned or threw

vars == << inputs, executionStrategy, validateBeforeExecute, validateOnly,
           failFast, pollingTimeoutSeconds, filePaths, pc, phase, i, options,
           op, elapsed, opResult, thrown, results, outputs, failedMsg,
           inflight, submitLog, submitReplies, polled, attempts, opLog, wsInput, wsOutput,
           pollLog, pollCount, callArgs, callResult >>

inputVars == << inputs, executionStrategy, validateBeforeExecute,
                validateOnly, failFast, pollingTimeoutSeconds, filePaths >>

wsVars == << wsInput, wsOutput >>

pollVars == << pollLog, pollCount >>

callVars == << callArgs, callResult >>

(* ------------------------ strings of the inputs ------------------------ *)

Whitespace == {" ", "\t", "\n", "\r"}

RECURSIVE trimStart(_)
trimStart(str) ==
  IF Len(str) = 0 THEN ""
  ELSE IF SubSeq(str, 1, 1) \in Whitespace THEN trimStart(SubSeq(str, 2, Len(str)))
  ELSE str

RECURSIVE trimEnd(_)
trimEnd(str) ==
  IF Len(str) = 0 THEN ""
  ELSE IF SubSeq(str, Len(str), Len(str)) \in Whitespace
  THEN trimEnd(SubSeq(str, 1, Len(str) - 1))
  ELSE str

\* String.prototype.trim
trim(str) == trimEnd(trimStart(str))

\* String.prototype.split with a one-character separator
RECURSIVE split(_, _)
split(str, sep) ==
  LET at == {k \in 1..Len(str) : SubSeq(str, k, k) = sep}
  IN IF at = {} THEN << str >>
     ELSE LET k == CHOOSE m \in at : \A n \in at : m <= n
          IN << SubSeq(str, 1, k - 1) >> \o split(SubSeq(str, k + 1, Len(str)), sep)

\* String.prototype.startsWith
startsWith(str, prefix) ==
  Len(str) >= Len(prefix) /\ SubSeq(str, 1, Len(prefix)) = prefix

\* baseUrl.replace(/\/$/, ''): one trailing slash removed
stripTrailingSlash(str) ==
  IF Len(str) > 0 /\ SubSeq(str, Len(str), Len(str)) = "/"
  THEN SubSeq(str, 1, Len(str) - 1) ELSE str

\* core.getInput(name): the value, trimmed
getInput(value) == trim(value)

SchemeChars ==
  {"a", "b", "c", "d", "e", "f", "g", "h", "i", "j", "k", "l", "m", "n", "o",
   "p", "q", "r", "s", "t", "u", "v", "w", "x", "y", "z", "+", "-", "."}

\* new URL(baseUrl) does not throw: without a base, the string must start with
\* a scheme followed by ':'
ParsesAsURL(str) ==
  \E k \in 2..Len(str) :
    /\ SubSeq(str, k, k) = ":"
    /\ \A j \in 1..(k - 1) : SubSeq(str, j, j) \in SchemeChars

\* /[*?[\]{}]/.test(pattern)
isGlobPattern(pattern) ==
  \E k \in 1..Len(pattern) : SubSeq(pattern, k, k) \in {"*", "?", "[", "]", "{", "}"}

(* ------------------------------ inputs --------------------------------- *)

\* literal paths for which fs.existsSync is true
ExistingFiles == {"changeset.yaml"}

\* what the workflow and the checkout can hand to run(): the raw values of
\* the inputs, and the number of files the glob pattern matches
RawInputs ==
  [apiKey : {"", "  ", "key"},
   baseUrl : {"", "/", "not-a-url", "https://inprod.example/"},
   changesetFile : {"", "  ", "missing.yaml", "changeset.yaml", "changesets/*.yaml"},
   changesetVariables : {"KEY=VALUE", "NOEQUALS", "=VALUE"},
   matches : 0..MaxFiles]

\* inputs that pass every check, for the specifications that start past run()'s checks
SomeValidInputs ==
  [apiKey |-> "key", baseUrl |-> "https://inprod.example/",
   changesetFile |-> "changeset.yaml", changesetVariables |-> "KEY=VALUE", matches |-> 0]

\* line 359: core.getInput('api_key') || process.env.INPROD_API_KEY || ''
apiKeyOf(in) == in.apiKey

\* line 360: (... || '').replace(/\/$/, '')
baseUrlOf(in) == stripTrailingSlash(in.baseUrl)

\* lines 379-382: const [key, ...valueParts] = trimmed.split('=');
\* !key || valueParts.length === 0
BadVariableLine(trimmed) ==
  LET parts == split(trimmed, "=")
  IN parts[1] = "" \/ Len(Tail(parts)) = 0

\* lines 376-383: the first line, trimmed, that makes the loop throw; Absent if none
RECURSIVE firstBadLine(_)
firstBadLine(lines) ==
  IF lines = << >> THEN Absent
  ELSE LET trimmed == trim(Head(lines))
       IN IF trimmed = "" \/ startsWith(trimmed, "#") THEN firstBadLine(Tail(lines))
          ELSE IF BadVariableLine(trimmed) THEN trimmed
          ELSE firstBadLine(Tail(lines))

\* lines 373-375: the lines the loop goes through
variableLines(input) ==
  IF input # "" /\ trim(input) # "" THEN split(trim(input), "\n") ELSE << >>

\* faulty variant: the emptiness checks left out
IsBlank_Never(value) == FALSE

\* !value || value.trim() === ''
IsBlank(value) == value = "" \/ trim(value) = ""

\* resolveFiles, lines 94-119: the error it throws, Absent if it returns
resolveFilesError(changesetFile, matches) ==
  IF IsBlank(changesetFile) THEN "changeset_file is required"
  ELSE IF isGlobPattern(changesetFile)
  THEN IF matches = 0 THEN "No files matched the pattern: " \o changesetFile ELSE Absent
  ELSE IF changesetFile \notin ExistingFiles
  THEN "Changeset file not found: " \o changesetFile
  ELSE Absent

\* resolveFiles, lines 94-119: the list it returns; files are named by their
\* rank in the order of their base names
resolveFiles(changesetFile, matches) ==
  IF isGlobPattern(changesetFile) THEN [k \in 1..matches |-> k] ELSE << 1 >>

\* run(), lines 359-407: the message of the error the input handling throws,
\* in the order the code makes its checks; Absent if it throws nothing
inputsError(in) ==
  IF in.changesetFile = ""
  THEN "Input required and not supplied: changeset_file"
  ELSE IF firstBadLine(variableLines(getInput(in.changesetVariables))) # Absent
  THEN "Invalid changeset_variables format. Expected KEY=VALUE on each line, got: "
         \o firstBadLine(variableLines(getInput(in.changesetVariables)))
  ELSE IF IsBlank(apiKeyOf(in)) THEN "api_key is required and cannot be empty"
  ELSE IF IsBlank(baseUrlOf(in)) THEN "base_url is required and cannot be empty"
  ELSE IF ~ParsesAsURL(baseUrlOf(in)) THEN "Invalid base_url format: " \o baseUrlOf(in)
  ELSE resolveFilesError(getInput(in.changesetFile), in.matches)

\* parseInt(core.getInput('polling_timeout_minutes'), 10) || 10
TimeoutMinutes == {-1} \cup 1..MaxTimeoutMinutes

NoResult == [status |-> Absent, result |-> Absent, error |-> Absent]

(* ------------------------------ messages ------------------------------- *)

\* messages of the errors validateFile / executeFile throw before polling
SubmitErrorMessage(operation, response) ==
  CASE response = "fault" ->
         "Failed to connect to InProd API: fetch failed"
    [] response = "http_error" ->
         IF operation = "validate"
         THEN "Validation request failed with status 500: Error"
         ELSE "API request failed with status 500: Error"
    [] response = "bad_json" ->
         "Unexpected end of JSON input"
    [] response = "no_envelope" ->
         IF operation = "validate"
         THEN "Failed to extract task_id from validation response"
         ELSE "Failed to extract task_id from API response"
    [] response = "empty_task_id" ->
         IF operation = "validate"
         THEN "Validation API returned an empty task_id"
         ELSE "API returned an empty task_id"

\* message of the error fs.readFileSync throws
ReadErrorMessage == "ENOENT: no such file or directory"

\* message of the error pollTask throws on a non-ok status response
PollFailedMessage == "Poll failed with status 500: Error"

\* message of the SyntaxError of pollResponse.json(), or of the TypeError of
\* reading pollData.status when pollData is null
MalformedMessage == "Unexpected token < in JSON at position 0"

(* ---------------------------- initial state ---------------------------- *)

Init ==
  /\ inputs \in RawInputs
  /\ isGlobPattern(inputs.changesetFile) \/ inputs.matches = 0
  /\ executionStrategy \in {"per_file", "validate_first"}
  /\ validateBeforeExecute \in BOOLEAN
  /\ validateOnly \in BOOLEAN
  /\ failFast \in BOOLEAN
  /\ \E m \in TimeoutMinutes : pollingTimeoutSeconds = m * 60
  /\ filePaths = << >>
  /\ pc = "inputs"
  /\ phase = "none"
  /\ i = 0
  /\ options = [validateBeforeExecute |-> validateBeforeExecute,
                validateOnly |-> validateOnly]
  /\ op = "none"
  /\ elapsed = 0
  /\ opResult = NoResult
  /\ thrown = Absent
  /\ results = <<>>
  /\ outputs = <<>>
  /\ failedMsg = Absent
  /\ inflight = 0
  /\ submitLog = <<>>
  /\ submitReplies = <<>>
  /\ polled = {}
  /\ attempts = <<>>
  /\ opLog = <<>>
  /\ wsInput = <<>>
  /\ wsOutput = Absent
  /\ pollLog = <<>>
  /\ pollCount = 0
  /\ callArgs = Absent
  /\ callResult = Absent

(* ------------------------------- helpers ------------------------------- *)

\* a request handed to fetch(): one more request is in flight
fetchIssued(n) == n + 1

\* faulty variant: the fetch is not awaited
fetchSettled_NotAwaited(n) == n

\* `await fetch(...)` resumes: the request has returned or faulted
fetchSettled(n) == n - 1

\* faulty variant: the validateBeforeExecute test left out
TakesValidateFirst_IgnoresValidateBeforeExecute ==
  executionStrategy = "validate_first" /\ ~validateOnly

\* faulty variant: the !validateOnly test left out
TakesValidateFirst_IgnoresValidateOnly ==
  executionStrategy = "validate_first" /\ validateBeforeExecute

\* executionStrategy === 'validate_first' && !validateOnly && validateBeforeExecute
TakesValidateFirst ==
  executionStrategy = "validate_first" /\ ~validateOnly /\ validateBeforeExecute

\* faulty variant: only FAILURE counts as a validation failure
NotSuccess_OnlyFailureStatus(r) == r.status = "FAILURE"

\* r.status !== 'SUCCESS'
NotSuccess(r) == r.status # "SUCCESS"

\* r.status !== 'SUCCESS' && r.status !== 'SUBMITTED'
IsFailedFile(r) == r.status # "SUCCESS" /\ r.status # "SUBMITTED"

\* results.map(r => ({ file, status, result: r.result || {}, error: r.error || null }))
resultArray(rs) ==
  [k \in 1..Len(rs) |->
     [file |-> rs[k].file,
      status |-> rs[k].status,
      result |-> OrElse(rs[k].result, EmptyObject),
      error |-> OrElse(rs[k].error, Absent)]]

\* faulty variant: the caught error is recorded under the first file
CaughtResult_UnderFirstFile(file, message) ==
  [file |-> filePaths[1], status |-> "FAILURE", result |-> EmptyObject, error |-> message]

\* faulty variant: the caught error's message is dropped
CaughtResult_WithoutMessage(file, message) ==
  [file |-> file, status |-> "FAILURE", result |-> EmptyObject, error |-> Absent]

\* the catch blocks of the file loops: { file, status: 'FAILURE', result: {}, error: error.message }
CaughtResult(file, message) ==
  [file |-> file, status |-> "FAILURE", result |-> EmptyObject, error |-> message]

(* ------------------------------- run() --------------------------------- *)

\* run(), lines 357-431: read and check the inputs, resolve the files,
\* choose the strategy
RunInputs ==
  /\ pc = "inputs"
  /\ IF inputsError(inputs) # Absent
     THEN /\ thrown' = inputsError(inputs)
          /\ pc' = "run_catch"
          /\ UNCHANGED << phase, i, filePaths >>
     ELSE /\ filePaths' = resolveFiles(getInput(inputs.changesetFile), inputs.matches)
          /\ phase' = IF TakesValidateFirst THEN "phase1" ELSE "per_file"
          /\ i' = 1
          /\ pc' = "loop"
          /\ UNCHANGED thrown
  /\ UNCHANGED << inputs, executionStrategy, validateBeforeExecute, validateOnly,
                  failFast, pollingTimeoutSeconds, options, op, elapsed, opResult, results, outputs,
                  failedMsg, inflight, submitLog, submitReplies, polled, attempts, opLog, wsVars, pollVars, callVars >>

\* validate_first phase 1, loop head: validateFile(filePath, options)
Phase1Loop ==
  /\ pc = "loop" /\ phase = "phase1"
  /\ IF i <= Len(filePaths)
     THEN /\ op' = "validate"
          /\ attempts' = Append(attempts, [phase |-> phase, file |-> filePaths[i]])
          /\ pc' = "submit"
     ELSE /\ pc' = "phase1_check"
          /\ UNCHANGED << op, attempts >>
  /\ UNCHANGED << inputVars, phase, i, options, elapsed, opResult, thrown,
                  results, outputs, failedMsg, inflight, submitLog, submitReplies, polled, opLog, wsVars, pollVars, callVars >>

\* faulty variant: phase 1 never breaks
Phase1Break_Never(ff) == FALSE

\* phase 1: if (failFast) { ...; break; }
Phase1Break(ff) == ff

\* validate_first phase 1, lines 439-446: validateFile returned
Phase1Result ==
  /\ pc = "op_done" /\ phase = "phase1"
  /\ IF opResult.status # "SUCCESS"
     THEN /\ results' = Append(results, [file |-> filePaths[i],
                                         status |-> opResult.status,
                                         result |-> opResult.result,
                                         error |-> opResult.error])
          /\ IF Phase1Break(failFast)
             THEN pc' = "phase1_check" /\ UNCHANGED i
             ELSE pc' = "loop" /\ i' = i + 1
     ELSE /\ pc' = "loop" /\ i' = i + 1
          /\ UNCHANGED results
  /\ opResult' = NoResult
  /\ op' = "none"
  /\ UNCHANGED << inputVars, phase, options, elapsed, thrown, outputs,
                  failedMsg, inflight, submitLog, submitReplies, polled, attempts, opLog, wsVars, pollVars, callVars >>

\* validate_first phase 1, lines 447-454: validateFile threw
Phase1Catch ==
  /\ pc = "throw" /\ phase = "phase1"
  /\ results' = Append(results, CaughtResult(filePaths[i], thrown))
  /\ IF Phase1Break(failFast)
     THEN pc' = "phase1_check" /\ UNCHANGED i
     ELSE pc' = "loop" /\ i' = i + 1
  /\ thrown' = Absent
  /\ op' = "none"
  /\ UNCHANGED << inputVars, phase, options, elapsed, opResult, outputs,
                  failedMsg, inflight, submitLog, submitReplies, polled, attempts, opLog, wsVars, pollVars, callVars >>

\* the message thrown when validation failures stop a validate_first run
ValidationFailedMessage(failures) ==
  IF Len(failures) = 1
  THEN failures[1].error
  ELSE ToString(Len(failures)) \o " of " \o ToString(Len(filePaths))
       \o " changeset(s) failed validation. See result output for details."

\* faulty variant: phase 2 clears validateOnly only, and validates again
executeOptions_KeepsValidation(o) == [validateBeforeExecute |-> TRUE, validateOnly |-> FALSE]

\* faulty variant: phase 2 reuses the run options
executeOptions_Unchanged(o) == o

\* const executeOptions = { ...options, validateBeforeExecute: false, validateOnly: false }
executeOptions(o) == [validateBeforeExecute |-> FALSE, validateOnly |-> FALSE]

\* status output of the validate_first failure exit: core.setOutput('status', 'FAILURE')
ValidationFailedStatus(rs) == "FAILURE"

\* faulty variant: the failure exit does not throw and runs on to the aggregation
AfterValidationFailure_FallsThrough == "aggregate"

\* line 472: throw new Error(msg), caught by the catch of run()
AfterValidationFailure == "run_catch"

\* validate_first, lines 457-478: stop if any validation failed, else start phase 2
Phase1Check ==
  /\ pc = "phase1_check"
  /\ LET validationFailures == SelectSeq(results, NotSuccess)
     IN IF Len(validationFailures) > 0
        THEN /\ outputs' = outputs \o
                  << [name |-> "status", value |-> ValidationFailedStatus(results)],
                     [name |-> "result", value |-> resultArray(results)] >>
             /\ thrown' = ValidationFailedMessage(validationFailures)
             /\ pc' = AfterValidationFailure
             /\ UNCHANGED << phase, i, options >>
        ELSE /\ phase' = "phase2"
             /\ options' = executeOptions(options)
             /\ i' = 1
             /\ pc' = "loop"
             /\ UNCHANGED << outputs, thrown >>
  /\ UNCHANGED << inputVars, op, elapsed, opResult, results, failedMsg,
                  inflight, submitLog, submitReplies, polled, attempts, opLog, wsVars, pollVars, callVars >>

\* loop head of phase 2 (lines 479-484) and of per_file (lines 500-505):
\* processSingleFile(filePath, options) up to its first operation (lines 307-329)
FileLoop ==
  /\ pc = "loop" /\ phase \in {"phase2", "per_file"}
  /\ IF i <= Len(filePaths)
     THEN /\ attempts' = Append(attempts, [phase |-> phase, file |-> filePaths[i]])
          /\ op' = IF options.validateOnly \/ options.validateBeforeExecute
                   THEN "validate" ELSE "execute"
          /\ pc' = "submit"
     ELSE /\ pc' = "aggregate"
          /\ UNCHANGED << op, attempts >>
  /\ UNCHANGED << inputVars, phase, i, options, elapsed, opResult, thrown,
                  results, outputs, failedMsg, inflight, submitLog, submitReplies, polled, opLog, wsVars, pollVars, callVars >>

(* ------------------- validateFile / executeFile: submit ---------------- *)

\* ghost: the operation under way returned `outcome`, or threw
Logged(outcome) ==
  Append(opLog, [op |-> op, file |-> filePaths[i], outcome |-> outcome])

\* validateFile lines 122-157 / executeFile lines 219-254: read the file,
\* build the body, hand the POST to fetch
Submit ==
  /\ pc = "submit"
  /\ \/ /\ thrown' = ReadErrorMessage
        /\ opLog' = Logged("THROWN")
        /\ pc' = "throw"
        /\ UNCHANGED << inflight, submitLog, submitReplies >>
     \/ /\ inflight' = fetchIssued(inflight)
        /\ submitLog' = Append(submitLog, [op |-> op, file |-> filePaths[i]])
        /\ pc' = "await_submit"
        /\ UNCHANGED << thrown, opLog >>
  /\ UNCHANGED << inputVars, phase, i, options, op, elapsed, opResult, results,
                  outputs, failedMsg, submitReplies, polled, attempts, wsVars, pollVars, callVars >>

\* faulty variant: one budget for the whole run, of which every operation
\* polled so far has used an interval
elapsedAtEntry_SharedByRun == pollInterval * Cardinality(polled)

\* pollTask line 9: let elapsed = 0, a local of each call
elapsedAtEntry == 0

\* validateFile lines 148-186 / executeFile lines 246-285: the submission
\* throws on a transport fault, a non-ok HTTP status, a body that is not
\* JSON, an envelope without data.attributes, or an empty task_id
SubmissionFails_AcceptsEmptyTaskId(response) ==
  response \notin {"ok", "empty_task_id"}

SubmissionFails(response) == response # "ok"

\* validateFile lines 158-188 / executeFile lines 255-287: the POST settles;
\* check the response, extract the task id, enter pollTask (lines 6-12)
SubmitResponse ==
  /\ pc = "await_submit"
  /\ inflight' = fetchSettled(inflight)
  /\ \E response \in SubmitResponses :
       /\ submitReplies' = Append(submitReplies, response)
       /\ IF SubmissionFails(response)
          THEN /\ thrown' = SubmitErrorMessage(op, response)
               /\ opLog' = Logged("THROWN")
               /\ pc' = "throw"
               /\ UNCHANGED elapsed
          ELSE /\ elapsed' = elapsedAtEntry
               /\ pc' = "poll_loop"
               /\ UNCHANGED << thrown, opLog >>
  /\ UNCHANGED << inputVars, phase, i, options, op, opResult, results, outputs,
                  failedMsg, submitLog, polled, attempts, wsVars, pollVars, callVars >>

(* ------------------------------ pollTask ------------------------------- *)

\* faulty variant: one iteration too many
PollAgain_Inclusive(e, timeout) == e <= timeout

\* faulty variant: with fail_fast set the poll gives up after one attempt
PollAgain_OnceUnderFailFast(e, timeout) == e < timeout /\ ~(failFast /\ e > 0)

\* while (elapsed < pollingTimeoutSeconds)
PollAgain(e, timeout) == e < timeout

\* pollTask lines 14-25 and 59: loop test, sleep one interval, issue the GET;
\* or leave the loop and return TIMEOUT
pollTaskLoop ==
  /\ pc = "poll_loop"
  /\ IF PollAgain(elapsed, pollingTimeoutSeconds)
     THEN /\ elapsed' = elapsed + pollInterval
          /\ inflight' = fetchIssued(inflight)
          /\ polled' = polled \cup {[op |-> op, file |-> filePaths[i]]}
          /\ pc' = "await_poll"
          /\ UNCHANGED opResult
     ELSE /\ opResult' = [status |-> "TIMEOUT", result |-> Absent, error |-> Absent]
          /\ pc' = "poll_return"
          /\ UNCHANGED << elapsed, inflight, polled >>
  /\ UNCHANGED << inputVars, phase, i, options, op, thrown, results, outputs,
                  failedMsg, submitLog, submitReplies, attempts, opLog, wsVars >>

\* the same step inside run()
PollLoop == pollTaskLoop /\ UNCHANGED << pollVars, callVars >>

\* pollTask lines 40-48: the value returned for a terminal status
TerminalOutcome(response) ==
  CASE response.status = "SUCCESS" ->
         [status |-> "SUCCESS", result |-> OrElse(response.result, EmptyObject),
          error |-> Absent]
    [] response.status = "FAILURE" ->
         [status |-> "FAILURE", result |-> Absent,
          error |-> OrElse(response.error, "Unknown error")]
    [] response.status = "REVOKED" ->
         [status |-> "REVOKED", result |-> Absent, error |-> Absent]

\* faulty variant: a terminal status counts only while budget is left
IsTerminal_OnlyWithinBudget(status) ==
  status \in {"SUCCESS", "FAILURE", "REVOKED"} /\ elapsed < pollingTimeoutSeconds

\* faulty variant: REVOKED not treated as terminal
IsTerminal_WithoutRevoked(status) == status \in {"SUCCESS", "FAILURE"}

\* status === 'SUCCESS' || status === 'FAILURE' || status === 'REVOKED'
IsTerminal(status) == status \in {"SUCCESS", "FAILURE", "REVOKED"}

\* pollTask lines 50-56, catch (e): rethrown only if the message includes
\* 'Poll failed', otherwise a warning and the next iteration
\* faulty variant: a caught error that is retried costs a second interval
pollTaskCatch_ChargesRetry(message) ==
  IF IncludesPollFailed(message)
  THEN /\ thrown' = message
       /\ opLog' = Logged("THROWN")
       /\ pc' = "throw"
       /\ elapsed' = 0
       /\ UNCHANGED opResult
  ELSE /\ pc' = "poll_loop"
       /\ elapsed' = elapsed + pollInterval
       /\ UNCHANGED << thrown, opResult, opLog >>

pollTaskCatch(message) ==
  IF IncludesPollFailed(message)
  THEN /\ thrown' = message
       /\ opLog' = Logged("THROWN")
       /\ pc' = "throw"
       /\ elapsed' = 0
       /\ UNCHANGED opResult
  ELSE pc' = "poll_loop" /\ UNCHANGED << thrown, opResult, opLog, elapsed >>

\* pollTask lines 19-56: the GET settles with the given response
pollTaskResponse(response) ==
  /\ pc = "await_poll"
  /\ inflight' = fetchSettled(inflight)
  /\ CASE response.kind = "fault" ->
            \* fetch rejects: the rejection reason reaches the catch
            pollTaskCatch(response.message)
       [] response.kind = "http_error" ->
            \* !pollResponse.ok: thrown inside the try, so the catch sees it
            pollTaskCatch(PollFailedMessage)
       [] response.kind = "malformed" ->
            \* pollResponse.json() rejects, or pollData is null
            pollTaskCatch(MalformedMessage)
       [] response.kind = "ok" ->
            IF IsTerminal(response.status)
            THEN /\ opResult' = TerminalOutcome(response)
                 /\ pc' = "poll_return"
                 /\ UNCHANGED << thrown, opLog, elapsed >>
            ELSE pc' = "poll_loop" /\ UNCHANGED << thrown, opResult, opLog, elapsed >>
  /\ UNCHANGED << inputVars, phase, i, options, op, results, outputs,
                  failedMsg, submitLog, submitReplies, polled, attempts, wsVars >>

\* the same step inside run()
PollResponse == \E response \in PollResponses : pollTaskResponse(response) /\ UNCHANGED << pollVars, callVars >>

(* ---------------- validateFile / executeFile: the outcome -------------- *)

\* validateFile lines 190-215: map the poll outcome to the validation result
validateOutcome(pollResult, timeout) ==
  IF pollResult.status = "TIMEOUT"
  THEN [status |-> "TIMEOUT", result |-> EmptyObject,
        error |-> "Validation did not complete within " \o ToString(timeout) \o " seconds"]
  ELSE IF pollResult.status = "FAILURE"
  THEN [status |-> "FAILURE", result |-> EmptyObject,
        error |-> "Validation failed: " \o pollResult.error]
  ELSE IF pollResult.status = "REVOKED"
  THEN [status |-> "REVOKED", result |-> EmptyObject,
        error |-> "Validation task was cancelled"]
  ELSE IF ~Truthy(is_valid(pollResult.result))
  THEN [status |-> "FAILURE", result |-> pollResult.result,
        error |-> "Changeset validation failed. See validation errors above."]
  ELSE [status |-> "SUCCESS", result |-> pollResult.result, error |-> Absent]

\* faulty variant: every outcome but SUCCESS reported as FAILURE
executeOutcome_TimeoutAsFailure(pollResult, timeout) ==
  IF pollResult.status = "SUCCESS"
  THEN [status |-> "SUCCESS", result |-> pollResult.result, error |-> Absent]
  ELSE [status |-> "FAILURE", result |-> EmptyObject,
        error |-> "Changeset execution failed: " \o ToString(timeout)]

\* executeFile lines 289-302: map the poll outcome to the execution result
executeOutcome(pollResult, timeout) ==
  IF pollResult.status = "SUCCESS"
  THEN [status |-> "SUCCESS", result |-> pollResult.result, error |-> Absent]
  ELSE IF pollResult.status = "FAILURE"
  THEN [status |-> "FAILURE", result |-> EmptyObject,
        error |-> "Changeset execution failed: " \o pollResult.error]
  ELSE IF pollResult.status = "REVOKED"
  THEN [status |-> "REVOKED", result |-> EmptyObject,
        error |-> "Changeset execution was cancelled"]
  ELSE IF pollResult.status = "TIMEOUT"
  THEN [status |-> "TIMEOUT", result |-> EmptyObject,
        error |-> "Changeset execution did not complete within " \o ToString(timeout) \o " seconds"]
  ELSE [status |-> pollResult.status, result |-> EmptyObject, error |-> Absent]

\* validateFile lines 188-215: pollTask returned
ValidateReturn ==
  /\ pc = "poll_return" /\ op = "validate"
  /\ opResult' = validateOutcome(opResult, pollingTimeoutSeconds)
  /\ opLog' = Logged(opResult'.status)
  /\ elapsed' = 0
  /\ pc' = "op_done"
  /\ UNCHANGED << inputVars, phase, i, options, op, thrown, results,
                  outputs, failedMsg, inflight, submitLog, submitReplies, polled, attempts, wsVars, pollVars, callVars >>

\* executeFile lines 287-302: pollTask returned
ExecuteReturn ==
  /\ pc = "poll_return" /\ op = "execute"
  /\ opResult' = executeOutcome(opResult, pollingTimeoutSeconds)
  /\ opLog' = Logged(opResult'.status)
  /\ elapsed' = 0
  /\ pc' = "op_done"
  /\ UNCHANGED << inputVars, phase, i, options, op, thrown, results,
                  outputs, failedMsg, inflight, submitLog, submitReplies, polled, attempts, wsVars, pollVars, callVars >>

(* --------------------------- processSingleFile ------------------------- *)

\* faulty variant: only a FAILURE validation stops the file
ValidationStops_OnlyOnFailureStatus(valResult) == valResult.status = "FAILURE"

\* valResult.status !== 'SUCCESS'
ValidationStops(valResult) == valResult.status # "SUCCESS"

\* processSingleFile lines 316-329: validateFile returned
ProcessValidated ==
  /\ pc = "op_done" /\ phase \in {"phase2", "per_file"} /\ op = "validate"
  /\ IF ValidationStops(opResult)
     THEN pc' = "file_done" /\ UNCHANGED << op, opResult >>
     ELSE IF options.validateOnly
     THEN /\ opResult' = [status |-> "SUCCESS", result |-> opResult.result,
                          error |-> Absent]
          /\ pc' = "file_done"
          /\ UNCHANGED op
     ELSE /\ op' = "execute"
          /\ opResult' = NoResult
          /\ pc' = "submit"
  /\ UNCHANGED << inputVars, phase, i, options, elapsed, thrown, results,
                  outputs, failedMsg, inflight, submitLog, submitReplies, polled, attempts, opLog, wsVars, pollVars, callVars >>

\* processSingleFile lines 329-345: executeFile returned
ProcessExecuted ==
  /\ pc = "op_done" /\ phase \in {"phase2", "per_file"} /\ op = "execute"
  /\ opResult' = IF Truthy(opResult.error)
                 THEN opResult
                 ELSE [status |-> opResult.status, result |-> opResult.result,
                       error |-> Absent]
  /\ pc' = "file_done"
  /\ UNCHANGED << inputVars, phase, i, options, op, elapsed, thrown, results,
                  outputs, failedMsg, inflight, submitLog, submitReplies, polled, attempts, opLog, wsVars, pollVars, callVars >>

(* ----------------------- the file loops of run() ----------------------- *)

\* faulty variant: fail-fast tests the status FAILURE instead of the error
StopsAfter_OnlyOnFailureStatus(fileResult, ff) == fileResult.status = "FAILURE" /\ ff

\* faulty variant: a returned result never stops the loop, only a throw does
StopsAfter_OnlyOnThrow(fileResult, ff) == FALSE

\* faulty variant: the failFast flag is read the wrong way round
StopsAfter_FlagInverted(fileResult, ff) == Truthy(fileResult.error) /\ ~ff

\* faulty variant: the failFast flag is not consulted
StopsAfter_IgnoresFailFast(fileResult, ff) == Truthy(fileResult.error)

\* fileResult.error && failFast
StopsAfter(fileResult, ff) == Truthy(fileResult.error) /\ ff

\* lines 484-489 and 505-510: processSingleFile returned
FileResult ==
  /\ pc = "file_done"
  /\ results' = Append(results, [file |-> filePaths[i], status |-> opResult.status,
                                 result |-> opResult.result, error |-> opResult.error])
  /\ IF StopsAfter(opResult, failFast)
     THEN pc' = "aggregate" /\ UNCHANGED i
     ELSE pc' = "loop" /\ i' = i + 1
  /\ opResult' = NoResult
  /\ op' = "none"
  /\ UNCHANGED << inputVars, phase, options, elapsed, thrown, outputs,
                  failedMsg, inflight, submitLog, submitReplies, polled, attempts, opLog, wsVars, pollVars, callVars >>

\* lines 490-496 and 511-517: processSingleFile threw
FileCatch ==
  /\ pc = "throw" /\ phase \in {"phase2", "per_file"}
  /\ results' = Append(results, CaughtResult(filePaths[i], thrown))
  /\ IF failFast
     THEN pc' = "aggregate" /\ UNCHANGED i
     ELSE pc' = "loop" /\ i' = i + 1
  /\ thrown' = Absent
  /\ op' = "none"
  /\ UNCHANGED << inputVars, phase, options, elapsed, opResult, outputs,
                  failedMsg, inflight, submitLog, submitReplies, polled, attempts, opLog, wsVars, pollVars, callVars >>

(* ------------------------------ aggregation ---------------------------- *)

\* faulty variant: only a FAILURE aggregate fails the run
FailsRun_OnlyOnFailure(aggregateStatus) == aggregateStatus = "FAILURE"

\* aggregateStatus === 'FAILURE' || ... 'TIMEOUT' || ... 'REVOKED'
FailsRun(aggregateStatus) == aggregateStatus \in {"FAILURE", "TIMEOUT", "REVOKED"}

\* faulty variant: the summary is used even for a single failed file
FailureMessage_AlwaysSummary(rs) ==
  LET failedFiles == SelectSeq(rs, IsFailedFile)
  IN ToString(Len(failedFiles)) \o " of " \o ToString(Len(rs))
     \o " changeset(s) failed. See result output for details."

\* lines 537-540: the message of the run-level failure
FailureMessage(rs) ==
  LET failedFiles == SelectSeq(rs, IsFailedFile)
  IN IF Len(failedFiles) = 1
     THEN failedFiles[1].error
     ELSE ToString(Len(failedFiles)) \o " of " \o ToString(Len(rs))
          \o " changeset(s) failed. See result output for details."

\* run() lines 521-542: set the outputs, fail the run on a bad aggregate
Aggregate ==
  /\ pc = "aggregate"
  /\ LET aggregateStatus == worstStatus(StatusesOf(results))
     IN /\ outputs' = outputs \o
             << [name |-> "status", value |-> aggregateStatus],
                [name |-> "result", value |-> resultArray(results)] >>
        /\ IF FailsRun(aggregateStatus)
           THEN thrown' = FailureMessage(results) /\ pc' = "run_catch"
           ELSE pc' = "done" /\ UNCHANGED thrown
  /\ UNCHANGED << inputVars, phase, i, options, op, elapsed, opResult, results,
                  failedMsg, inflight, submitLog, submitReplies, polled, attempts, opLog, wsVars, pollVars, callVars >>

\* run() lines 544-549: core.setFailed(error.message); process.exit(1)
RunCatch ==
  /\ pc = "run_catch"
  /\ failedMsg' = thrown
  /\ pc' = "exit1"
  /\ UNCHANGED << inputVars, phase, i, options, op, elapsed, opResult, thrown,
                  results, outputs, inflight, submitLog, submitReplies, polled, attempts, opLog, wsVars, pollVars, callVars >>

Next ==
  \/ RunInputs
  \/ Phase1Loop
  \/ Phase1Result
  \/ Phase1Catch
  \/ Phase1Check
  \/ FileLoop
  \/ Submit
  \/ SubmitResponse
  \/ PollLoop
  \/ PollResponse
  \/ ValidateReturn
  \/ ExecuteReturn
  \/ ProcessValidated
  \/ ProcessExecuted
  \/ FileResult
  \/ FileCatch
  \/ Aggregate
  \/ RunCatch

Spec == Init /\ [][Next]_vars


(* ------------------- worstStatus called on its own --------------------- *)

\* status strings handed to worstStatus
WorstInputs == Statuses \cup {UnknownStatus}

\* every list of at most n statuses
ListsUpTo(n) == UNION {[1..k -> WorstInputs] : k \in 0..n}

InitWorst ==
  /\ wsInput \in ListsUpTo(MaxResults)
  /\ wsOutput = Absent
  /\ pc = "worstStatus"
  /\ inputs = SomeValidInputs
  /\ executionStrategy = "per_file"
  /\ validateBeforeExecute = TRUE
  /\ validateOnly = FALSE
  /\ failFast = FALSE
  /\ pollingTimeoutSeconds = 60
  /\ filePaths = <<>>
  /\ phase = "none"
  /\ i = 0
  /\ options = [validateBeforeExecute |-> TRUE, validateOnly |-> FALSE]
  /\ op = "none"
  /\ elapsed = 0
  /\ opResult = NoResult
  /\ thrown = Absent
  /\ results = <<>>
  /\ outputs = <<>>
  /\ failedMsg = Absent
  /\ inflight = 0
  /\ submitLog = <<>>
  /\ submitReplies = <<>>
  /\ polled = {}
  /\ attempts = <<>>
  /\ opLog = <<>>
  /\ pollLog = <<>>
  /\ pollCount = 0
  /\ callArgs = Absent
  /\ callResult = Absent

\* worstStatus(results), lines 350-354
CallWorstStatus ==
  /\ pc = "worstStatus"
  /\ wsOutput' = worstStatus(wsInput)
  /\ pc' = "worstStatus_returned"
  /\ UNCHANGED << inputVars, phase, i, options, op, elapsed, opResult, thrown,
                  results, outputs, failedMsg, inflight, submitLog, submitReplies, polled,
                  attempts, opLog, wsInput, pollVars, callVars >>

NextWorst == CallWorstStatus

SpecWorst == InitWorst /\ [][NextWorst]_vars

(* ------------------- pollTask called on its own ------------------------ *)

\* timeouts of a direct call, in seconds: negative, zero, multiples of the
\* interval and values in between
PollTimeouts == (0 - pollInterval)..MaxPollSeconds

\* pollTask(baseUrl, apiKey, taskId, label, pollingTimeoutSeconds) is entered:
\* elapsed = 0 (line 9) and the loop test is next
InitPoll ==
  /\ pollingTimeoutSeconds \in PollTimeouts
  /\ pc = "poll_loop"
  /\ elapsed = 0
  /\ pollLog = <<>>
  /\ pollCount = 0
  /\ callArgs = Absent
  /\ callResult = Absent
  /\ phase = "direct"
  /\ op = "execute"
  /\ filePaths = << 1 >>
  /\ i = 1
  /\ inputs = SomeValidInputs
  /\ executionStrategy = "per_file"
  /\ validateBeforeExecute = TRUE
  /\ validateOnly = FALSE
  /\ failFast = FALSE
  /\ options = [validateBeforeExecute |-> TRUE, validateOnly |-> FALSE]
  /\ opResult = NoResult
  /\ thrown = Absent
  /\ results = <<>>
  /\ outputs = <<>>
  /\ failedMsg = Absent
  /\ inflight = 0
  /\ submitLog = <<>>
  /\ submitReplies = <<>>
  /\ polled = {}
  /\ attempts = <<>>
  /\ opLog = <<>>
  /\ wsInput = <<>>
  /\ wsOutput = Absent

\* pollTask lines 14-25 and 59, counting the GETs handed to fetch
PollTaskLoop ==
  /\ pollTaskLoop
  /\ pollCount' = IF pc' = "await_poll" THEN pollCount + 1 ELSE pollCount
  /\ UNCHANGED << pollLog, callVars >>

\* pollTask lines 19-56, recording what the GET came back with
PollTaskResponse ==
  \E response \in PollResponses :
    /\ pollTaskResponse(response)
    /\ pollLog' = Append(pollLog, response)
    /\ UNCHANGED << pollCount, callVars >>

NextPoll == PollTaskLoop \/ PollTaskResponse

\* the event loop runs every timer and settles every fetch
SpecPoll == InitPoll /\ [][NextPoll]_vars /\ WF_vars(NextPoll)

(* ------------------ functions called on their own --------------------- *)

\* run() is not running: every variable of the run at rest
NoRun ==
  /\ inputs = SomeValidInputs
  /\ executionStrategy = "per_file"
  /\ validateBeforeExecute = TRUE
  /\ validateOnly = FALSE
  /\ failFast = FALSE
  /\ pollingTimeoutSeconds = 60
  /\ filePaths = << >>
  /\ phase = "none"
  /\ i = 0
  /\ options = [validateBeforeExecute |-> TRUE, validateOnly |-> FALSE]
  /\ op = "none"
  /\ elapsed = 0
  /\ opResult = NoResult
  /\ thrown = Absent
  /\ results = << >>
  /\ outputs = << >>
  /\ failedMsg = Absent
  /\ inflight = 0
  /\ submitLog = << >>
  /\ submitReplies = << >>
  /\ polled = {}
  /\ attempts = << >>
  /\ opLog = << >>
  /\ wsInput = << >>
  /\ wsOutput = Absent
  /\ pollLog = << >>
  /\ pollCount = 0

runVars == << inputVars, phase, i, options, op, elapsed, opResult, thrown, results,
             outputs, failedMsg, inflight, submitLog, submitReplies, polled, attempts, opLog,
             wsVars, pollVars >>

(* ---- inject(document, variables) ---- *)

\* names and scopes of the variable entries tried
VariableNames == {"X", "Y"}
Scopes == {Absent, "1"}

\* an entry of a document's variable collection
VariableEntries ==
  [name : VariableNames, value : {"old"}, maskValue : BOOLEAN, environment : Scopes]

\* variable collections of up to MaxEntries entries
Collections == UNION {[1..n -> VariableEntries] : n \in 0..MaxEntries}

\* VariableSets: ordered, keys unique
VariableSets ==
  { << >>,
    << [name |-> "X", value |-> "new"] >>,
    << [name |-> "Y", value |-> "new"] >>,
    << [name |-> "X", value |-> "new"], [name |-> "Y", value |-> "other"] >>,
    << [name |-> "Y", value |-> "new"], [name |-> "X", value |-> "other"] >> }

\* faulty variant: the mask of the first matching entry only
maskOf_FirstMatch(collection, name) ==
  LET matching == SelectSeq(collection, LAMBDA e : e.name = name)
  IN matching # << >> /\ matching[1].maskValue

\* step 2: maskValue := true if any matching entry has maskValue = true
maskOf(collection, name) ==
  \E k \in DOMAIN collection : collection[k].name = name /\ collection[k].maskValue

\* steps 1-3 for one (name, value): remove all matching entries, append one
\* new entry {name, value, maskValue, environment: null}
injectOne(collection, variable) ==
  Append(SelectSeq(collection, LAMBDA e : e.name # variable.name),
         [name |-> variable.name, value |-> variable.value,
          maskValue |-> maskOf(collection, variable.name), environment |-> Absent])

\* for each (name, value) in variables, in the input's order
RECURSIVE inject(_, _)
inject(collection, variables) ==
  IF variables = << >> THEN collection
  ELSE inject(injectOne(collection, Head(variables)), Tail(variables))

InitInject ==
  /\ NoRun
  /\ pc = "inject"
  /\ callArgs \in [document : Collections, variables : VariableSets]
  /\ callResult = Absent

CallInject ==
  /\ pc = "inject"
  /\ callResult' = inject(callArgs.document, callArgs.variables)
  /\ pc' = "inject_returned"
  /\ UNCHANGED << runVars, callArgs >>

NextInject == CallInject

SpecInject == InitInject /\ [][NextInject]_vars

(* ---- resolveFiles(changesetFile) with a glob pattern ---- *)

\* base names and directories of the files a pattern can match
BaseNames == {"1", "a", "A", "B", "a1", "A1"}
Directories == {"p", "q"}
MatchedFiles == [dir : Directories, base : BaseNames]

\* globSync(pattern): distinct files, in the order the directory walk yields them
GlobResults ==
  UNION { {m \in [1..n -> MatchedFiles] : \A j, k \in 1..n : j # k => m[j] # m[k]}
          : n \in 0..MaxMatches }

\* path.basename(f)
basename(f) == f.base

\* collation weights of the characters used: primary (digits before letters,
\* letters in alphabetical order whatever their case) and tertiary (lower
\* case before upper case)
primaryWeight(c) == CASE c = "1" -> 1 [] c \in {"a", "A"} -> 2 [] c = "B" -> 3 [] OTHER -> 0
tertiaryWeight(c) == IF c \in {"A", "B"} THEN 1 ELSE 0

primaryKey(str) == [k \in 1..Len(str) |-> primaryWeight(SubSeq(str, k, k))]
tertiaryKey(str) == [k \in 1..Len(str) |-> tertiaryWeight(SubSeq(str, k, k))]

\* UTF-16 code units of the characters used
codeUnit(c) == CASE c = "1" -> 49 [] c = "A" -> 65 [] c = "B" -> 66 [] c = "a" -> 97
                 [] OTHER -> 0
codeUnits(str) == [k \in 1..Len(str) |-> codeUnit(SubSeq(str, k, k))]

\* comparison of two sequences of numbers, element by element: -1, 0 or 1
RECURSIVE compareKeys(_, _)
compareKeys(x, y) ==
  IF x = << >> THEN (IF y = << >> THEN 0 ELSE -1)
  ELSE IF y = << >> THEN 1
  ELSE IF Head(x) < Head(y) THEN -1
  ELSE IF Head(x) > Head(y) THEN 1
  ELSE compareKeys(Tail(x), Tail(y))

\* faulty variant: comparison by code unit, as < on strings does
localeCompare_ByCodeUnit(a, b) == compareKeys(codeUnits(a), codeUnits(b))

\* a.localeCompare(b): the primary weights decide, the case only breaks ties
localeCompare(a, b) ==
  LET primary == compareKeys(primaryKey(a), primaryKey(b))
  IN IF primary # 0 THEN primary ELSE compareKeys(tertiaryKey(a), tertiaryKey(b))

\* line 108: the comparator's operand, path.basename(a)
sortKey(f) == basename(f)

\* Array.prototype.sort with the comparator of line 108: stable
RECURSIVE insertSorted(_, _)
insertSorted(sorted, f) ==
  IF sorted = << >> THEN << f >>
  ELSE IF localeCompare(sortKey(Head(sorted)), sortKey(f)) <= 0
  THEN << Head(sorted) >> \o insertSorted(Tail(sorted), f)
  ELSE << f >> \o sorted

RECURSIVE sortByBasename(_)
sortByBasename(files) ==
  IF files = << >> THEN << >>
  ELSE insertSorted(sortByBasename(SubSeq(files, 1, Len(files) - 1)), files[Len(files)])

\* resolveFiles, lines 99-112, is called with a glob pattern
InitResolve ==
  /\ NoRun
  /\ pc = "resolveFiles"
  /\ callArgs \in [matches : GlobResults]
  /\ callResult = Absent

\* lines 102-112: no match throws, otherwise the sorted list is returned
CallResolveFiles ==
  /\ pc = "resolveFiles"
  /\ IF callArgs.matches = << >>
     THEN /\ callResult' = "No files matched the pattern"
          /\ pc' = "resolveFiles_threw"
     ELSE /\ callResult' = sortByBasename(callArgs.matches)
          /\ pc' = "resolveFiles_returned"
  /\ UNCHANGED << runVars, callArgs >>

NextResolve == CallResolveFiles

SpecResolve == InitResolve /\ [][NextResolve]_vars

(* ---- run(), lines 371-386: parsing of changeset_variables ---- *)

\* lines a changeset_variables input can be made of
VariableLineTexts ==
  {"", "  ", "# note", "A=1", " A = 1 ", "A=b=c", "B=", "=v", "NOEQUALS"}

\* Array.prototype.join
RECURSIVE join(_, _)
join(parts, sep) ==
  IF parts = << >> THEN ""
  ELSE IF Len(parts) = 1 THEN parts[1]
  ELSE parts[1] \o sep \o join(Tail(parts), sep)

\* the raw inputs: up to MaxLines lines, separated by newlines
VariableInputs ==
  {join(ls, "\n") : ls \in UNION {[1..n -> VariableLineTexts] : n \in 1..MaxLines}}

\* changesetVariables[key] = value: an existing key keeps its place
assign(variables, key, value) ==
  IF \E k \in DOMAIN variables : variables[k].key = key
  THEN [k \in DOMAIN variables |->
          IF variables[k].key = key THEN [key |-> key, value |-> value] ELSE variables[k]]
  ELSE Append(variables, [key |-> key, value |-> value])

\* faulty variant: the value stops at the second '='
valueOf_FirstPartOnly(trimmed) == trim(split(trimmed, "=")[2])

\* line 383: valueParts.join('=').trim()
valueOf(trimmed) == trim(join(Tail(split(trimmed, "=")), "="))

\* line 383: key.trim()
keyOf(trimmed) == trim(split(trimmed, "=")[1])

\* lines 376-384: the loop over the lines, for an input no line of which throws
RECURSIVE parsedLines(_, _)
parsedLines(lines, variables) ==
  IF lines = << >> THEN variables
  ELSE LET trimmed == trim(Head(lines))
       IN IF trimmed = "" \/ startsWith(trimmed, "#")
          THEN parsedLines(Tail(lines), variables)
          ELSE parsedLines(Tail(lines), assign(variables, keyOf(trimmed), valueOf(trimmed)))

\* line 373: changesetVariables stays null (the input is empty or blank)
staysNull(input) == ~(input # "" /\ trim(input) # "")

\* lines 372-386: the entries of changesetVariables (none while it is null)
parseVariables(input) == parsedLines(variableLines(input), << >>)

InitParse ==
  /\ NoRun
  /\ pc = "parseVariables"
  /\ callArgs \in [raw : VariableInputs]
  /\ callResult = Absent

\* lines 369-386 on the value core.getInput('changeset_variables') returns
CallParseVariables ==
  /\ pc = "parseVariables"
  /\ LET changesetVariablesInput == getInput(callArgs.raw)
         bad == firstBadLine(variableLines(changesetVariablesInput))
     IN IF bad # Absent
        THEN /\ callResult' = [threw |-> TRUE, message |->
                  "Invalid changeset_variables format. Expected KEY=VALUE on each line, got: " \o bad]
             /\ pc' = "parseVariables_threw"
        ELSE /\ callResult' = [threw |-> FALSE,
                               isNull |-> staysNull(changesetVariablesInput),
                               variables |-> parseVariables(changesetVariablesInput)]
             /\ pc' = "parseVariables_returned"
  /\ UNCHANGED << runVars, callArgs >>

NextParse == CallParseVariables

SpecParse == InitParse /\ [][NextParse]_vars

(* ---- validateFile / executeFile, lines 134-145: the request body ---- *)

\* content of the changeset file read at line 124
FileContent == "name: Test"

\* getFileFormat(filePath)
Formats == {"json", "yaml"}

\* the changeset_variables inputs that parse without an error
ParsableInputs == {raw \in VariableInputs : firstBadLine(variableLines(getInput(raw))) = Absent}

\* JSON.stringify of the variables object: {"KEY":"value",...}
RECURSIVE jsonMembers(_)
jsonMembers(variables) ==
  IF variables = << >> THEN ""
  ELSE "\"" \o Head(variables).key \o "\":\"" \o Head(variables).value \o "\""
       \o (IF Len(variables) > 1 THEN "," ELSE "") \o jsonMembers(Tail(variables))

\* lines 139-140: ...(changesetVariables && { variables: changesetVariables });
\* an object is truthy even when it has no key
hasVariablesMember(isNull, variables) == ~isNull

\* lines 136-142: JSON.stringify({ changeset: content, ...variables })
jsonBody(content, isNull, variables) ==
  "{\"changeset\":\"" \o content \o "\""
  \o (IF hasVariablesMember(isNull, variables)
      THEN ",\"variables\":{" \o jsonMembers(variables) \o "}" ELSE "")
  \o "}"

\* buildYamlPayload lines 81-84: one line per variable
RECURSIVE yamlEntries(_)
yamlEntries(variables) ==
  IF variables = << >> THEN ""
  ELSE "\n  " \o Head(variables).key \o ": \"" \o Head(variables).value \o "\""
       \o yamlEntries(Tail(variables))

\* buildYamlPayload, lines 73-88 (the content has one line)
buildYamlPayload(content, isNull, variables) ==
  "changeset: |\n  " \o content
  \o (IF ~isNull /\ Len(variables) > 0 THEN "\nvariables:" \o yamlEntries(variables) ELSE "")

\* lines 134-145: body for the file's format
requestBody(format, content, isNull, variables) ==
  IF format = "json" THEN jsonBody(content, isNull, variables)
  ELSE buildYamlPayload(content, isNull, variables)

InitBody ==
  /\ NoRun
  /\ pc = "buildBody"
  /\ callArgs \in [raw : ParsableInputs \cup {""}, format : Formats]
  /\ callResult = Absent

\* run() lines 369-386 parse the input, validateFile lines 134-145 build the body
CallBuildBody ==
  /\ pc = "buildBody"
  /\ LET changesetVariablesInput == getInput(callArgs.raw)
     IN callResult' = requestBody(callArgs.format, FileContent,
                                  staysNull(changesetVariablesInput),
                                  parseVariables(changesetVariablesInput))
  /\ pc' = "buildBody_returned"
  /\ UNCHANGED << runVars, callArgs >>

NextBody == CallBuildBody

SpecBody == InitBody /\ [][NextBody]_vars

(* ============================== properties ============================== *)

\* position of a file in the resolved list
Pos(f) == CHOOSE k \in DOMAIN filePaths : filePaths[k] = f

IsValidateEntry(e) == e.op = "validate"

IsExecuteEntry(e) == e.op = "execute"

\* an Execute submission has been issued
ExecuteSubmitted == \E j \in DOMAIN submitLog : submitLog[j].op = "execute"

\* the run has left the file loops
PastFileLoops == pc \in {"aggregate", "run_catch", "exit1", "done"}

\* the severity ranking as the specification states it, worst first
SeverityRanking == << "FAILURE", "TIMEOUT", "REVOKED", "SUBMITTED", "SUCCESS" >>

RankOf(s) == CHOOSE k \in DOMAIN SeverityRanking : SeverityRanking[k] = s

AllRanked(statuses) ==
  \A k \in DOMAIN statuses : \E r \in DOMAIN SeverityRanking : SeverityRanking[r] = statuses[k]

\* the worst status present in a list of ranked statuses, SUCCESS if there is none
WorstPresent(statuses) ==
  LET present == {statuses[k] : k \in DOMAIN statuses}
  IN IF present = {} THEN "SUCCESS"
     ELSE CHOOSE s \in present : \A t \in present : RankOf(s) <= RankOf(t)

\* C1: at every point of a run at most one remote request (submission POST or
\* status GET) is in flight, and one is in flight exactly while the run awaits
\* the response of the request it issued last.
C1_AtMostOneRequestInFlight ==
  /\ inflight \in {0, 1}
  /\ inflight = 1 <=> pc \in {"await_submit", "await_poll"}

C1_Witness ==
  /\ inflight = 1
  /\ pc = "await_poll"
  /\ Len(submitLog) >= 2
  /\ Cardinality(polled) >= 2

\* C2: under validate_first, once the validation of some file has ended other
\* than in SUCCESS (a non-SUCCESS status or a thrown error), no Execute
\* submission is ever issued and the run cannot end successfully: it ends in
\* setFailed.
C2_NoExecuteAfterFailedValidation ==
  ( /\ TakesValidateFirst
    /\ \E k \in DOMAIN opLog : opLog[k].op = "validate" /\ opLog[k].outcome # "SUCCESS" )
  => /\ ~ExecuteSubmitted
     /\ pc # "done"
     /\ (pc = "exit1" => Truthy(failedMsg))

C2_Witness ==
  /\ TakesValidateFirst
  /\ pc = "exit1"
  /\ Len(opLog) = 2
  /\ opLog[1].outcome = "TIMEOUT"
  /\ opLog[2].outcome = "SUCCESS"
  /\ ~ExecuteSubmitted

\* C3: in the per-file loop with failFast, a non-SUCCESS FileResult is the
\* last entry of the result list, and no later file is attempted, submitted
\* or polled.
C3_FailFastStopsPerFile ==
  (phase = "per_file" /\ failFast) =>
    \A k \in DOMAIN results :
      results[k].status # "SUCCESS" =>
        /\ k = Len(results)
        /\ \A j \in DOMAIN attempts : Pos(attempts[j].file) <= Pos(results[k].file)
        /\ \A j \in DOMAIN submitLog : Pos(submitLog[j].file) <= Pos(results[k].file)
        /\ \A e \in polled : Pos(e.file) <= Pos(results[k].file)
        /\ PastFileLoops

C3_Witness ==
  /\ executionStrategy = "per_file" /\ phase = "per_file" /\ failFast
  /\ pc = "exit1"
  /\ Len(filePaths) = 2
  /\ Len(results) = 1
  /\ results[1].status = "TIMEOUT"
  /\ Len(attempts) = 1

\* C4: in the per-file loop without failFast the files are attempted in list
\* order, each once, one FileResult is recorded per attempted file, and when
\* the loop is over every resolved file has been attempted and recorded.
C4_EveryFileOnceInOrder ==
  (phase = "per_file" /\ ~failFast) =>
    /\ Len(attempts) <= Len(filePaths)
    /\ \A k \in DOMAIN attempts : attempts[k].file = filePaths[k]
    /\ Len(results) \in {Len(attempts) - 1, Len(attempts)}
    /\ \A k \in DOMAIN results : results[k].file = filePaths[k]
    /\ PastFileLoops => (Len(attempts) = Len(filePaths) /\ Len(results) = Len(filePaths))

C4_Witness ==
  /\ executionStrategy = "per_file" /\ phase = "per_file" /\ ~failFast
  /\ pc = "exit1"
  /\ Len(filePaths) = 2
  /\ Len(results) = 2
  /\ results[1].status = "FAILURE"
  /\ results[2].status = "SUCCESS"

\* C5: in the per-file loop with validate_before_execute, every Execute
\* submission for a file comes after a Validate of that file that returned
\* SUCCESS, and a file whose Validate ended otherwise is never executed.
C5_ExecuteOnlyAfterValidation ==
  (phase = "per_file" /\ validateBeforeExecute) =>
    /\ \A j \in DOMAIN submitLog :
         submitLog[j].op = "execute" =>
           \E k \in DOMAIN opLog :
             opLog[k] = [op |-> "validate", file |-> submitLog[j].file, outcome |-> "SUCCESS"]
    /\ \A k \in DOMAIN opLog :
         (opLog[k].op = "validate" /\ opLog[k].outcome # "SUCCESS") =>
           \A j \in DOMAIN submitLog :
             ~(submitLog[j].op = "execute" /\ submitLog[j].file = opLog[k].file)

C5_Witness ==
  /\ executionStrategy = "per_file" /\ phase = "per_file" /\ validateBeforeExecute
  /\ Len(opLog) = 2
  /\ opLog[1] = [op |-> "validate", file |-> filePaths[1], outcome |-> "REVOKED"]
  /\ opLog[2] = [op |-> "validate", file |-> filePaths[2], outcome |-> "SUCCESS"]
  /\ submitLog[Len(submitLog)] = [op |-> "execute", file |-> filePaths[2]]

\* C6: under validate_first, once the execute phase has begun every file has
\* been validated exactly once, in list order and with SUCCESS, all Validate
\* submissions precede all Execute submissions, and the execute phase issues
\* no Validate submission.
C6_ValidateAllThenExecute ==
  (TakesValidateFirst /\ (phase = "phase2" \/ ExecuteSubmitted)) =>
    LET validates == SelectSeq(submitLog, IsValidateEntry)
        executes == SelectSeq(submitLog, IsExecuteEntry)
    IN /\ submitLog = validates \o executes
       /\ Len(validates) = Len(filePaths)
       /\ \A k \in DOMAIN validates : validates[k].file = filePaths[k]
       /\ \A k \in DOMAIN filePaths :
            opLog[k] = [op |-> "validate", file |-> filePaths[k], outcome |-> "SUCCESS"]
       /\ \A k \in DOMAIN opLog : k > Len(filePaths) => opLog[k].op = "execute"

C6_Witness ==
  /\ TakesValidateFirst
  /\ pc = "done"
  /\ Len(filePaths) = 2
  /\ Len(submitLog) = 4
  /\ submitLog[4] = [op |-> "execute", file |-> filePaths[2]]

\* C7: under validate_first with failFast, a validation that ends other than
\* in SUCCESS is the last operation of the run: no later file is validated
\* and no file is executed.
C7_FailFastStopsValidation ==
  (TakesValidateFirst /\ failFast) =>
    \A k \in DOMAIN opLog :
      (opLog[k].op = "validate" /\ opLog[k].outcome # "SUCCESS") =>
        /\ k = Len(opLog)
        /\ \A j \in DOMAIN attempts : Pos(attempts[j].file) <= Pos(opLog[k].file)
        /\ \A j \in DOMAIN submitLog :
             /\ submitLog[j].op = "validate"
             /\ Pos(submitLog[j].file) <= Pos(opLog[k].file)

C7_Witness ==
  /\ TakesValidateFirst /\ failFast
  /\ pc = "exit1"
  /\ Len(filePaths) = 2
  /\ Len(opLog) = 1
  /\ opLog[1] = [op |-> "validate", file |-> filePaths[1], outcome |-> "FAILURE"]
  /\ Len(submitLog) = 1

\* C8: when validate_only is true no Execute submission is issued and no
\* Execute operation runs, for either strategy and either value of
\* validate_before_execute.
C8_ValidateOnlyNeverExecutes ==
  validateOnly =>
    /\ ~ExecuteSubmitted
    /\ \A k \in DOMAIN opLog : opLog[k].op # "execute"
    /\ op # "execute"

C8_Witness ==
  /\ validateOnly
  /\ executionStrategy = "validate_first"
  /\ validateBeforeExecute
  /\ pc = "done"
  /\ Len(filePaths) = 2
  /\ Len(results) = 2
  /\ Len(submitLog) = 2

\* C9: on a list of results whose statuses are all in the ranking
\* FAILURE > TIMEOUT > REVOKED > SUBMITTED > SUCCESS, worstStatus returns the
\* worst status present, and SUCCESS for the empty list.
C9_WorstStatusIsWorst ==
  (pc = "worstStatus_returned" /\ AllRanked(wsInput)) =>
    /\ wsOutput = WorstPresent(wsInput)
    /\ wsInput = <<>> => wsOutput = "SUCCESS"

C9_Witness ==
  /\ pc = "worstStatus_returned"
  /\ wsInput = << "SUCCESS", "REVOKED", "TIMEOUT" >>
  /\ wsOutput = "TIMEOUT"

\* C10: whenever the `status` output has been set, its value is the worst
\* status, by the ranking, among the FileResults recorded in the run.
C10_StatusIsWorstOfResults ==
  \A k \in DOMAIN outputs :
    outputs[k].name = "status" => outputs[k].value = WorstPresent(StatusesOf(results))

\* the run has ended: the action returned, or called process.exit(1)
RunEnded == pc \in {"done", "exit1"}

\* the run got past the input checks and file resolution
ReachedFileProcessing == phase # "none"

\* values the `status` output has been given
StatusOutputs == {outputs[k].value : k \in {j \in DOMAIN outputs : outputs[j].name = "status"}}

\* the FileResults that are not SUCCESS
NonSuccessful(rs) == SelectSeq(rs, NotSuccess)

\* C11: a run that reached file processing and has ended, ended failed
\* (setFailed, exit code 1) exactly if its aggregate status - the status
\* output, and likewise the worst status among its FileResults - is FAILURE,
\* TIMEOUT or REVOKED; if every FileResult is SUCCESS it did not fail.
C11_FailedIffBadAggregate ==
  (ReachedFileProcessing /\ RunEnded) =>
    /\ pc = "exit1" <=> StatusOutputs \subseteq {"FAILURE", "TIMEOUT", "REVOKED"}
    /\ pc = "exit1" <=> WorstPresent(StatusesOf(results)) \in {"FAILURE", "TIMEOUT", "REVOKED"}
    /\ pc = "exit1" <=> failedMsg # Absent
    /\ pc = "done" <=> StatusOutputs = {"SUCCESS"}
    /\ (\A k \in DOMAIN results : results[k].status = "SUCCESS") => pc = "done"

C11_Witness ==
  /\ ReachedFileProcessing
  /\ pc = "exit1"
  /\ executionStrategy = "per_file"
  /\ Len(results) = 2
  /\ results[1].status = "SUCCESS"
  /\ results[2].status = "REVOKED"
  /\ StatusOutputs = {"REVOKED"}

\* files on which an operation was attempted, in processing order, each once
AttemptedFiles ==
  LET first(k) == \A j \in 1..(k - 1) : attempts[j].file # attempts[k].file
      RECURSIVE from(_)
      from(k) == IF k > Len(attempts) THEN <<>>
                 ELSE (IF first(k) THEN << attempts[k].file >> ELSE <<>>) \o from(k + 1)
  IN from(1)

\* C12: whenever the `result` output has been set, it holds exactly one entry
\* for every file on which an operation was attempted, in processing order.
C12_ResultHasEveryAttemptedFile ==
  \A k \in DOMAIN outputs :
    outputs[k].name = "result" =>
      /\ Len(outputs[k].value) = Len(AttemptedFiles)
      /\ \A j \in DOMAIN outputs[k].value : outputs[k].value[j].file = AttemptedFiles[j]

\* C13: when a run fails after file processing, the failure message is the
\* error string of the failing file if exactly one FileResult is not SUCCESS,
\* and otherwise a summary that gives the count of such files.
C13_FailureMessage ==
  (ReachedFileProcessing /\ pc = "exit1") =>
    LET failed == NonSuccessful(results)
        n == ToString(Len(failed))
    IN IF Len(failed) = 1
       THEN failedMsg = failed[1].error
       ELSE failedMsg \in
              { n \o " of " \o ToString(Len(results))
                  \o " changeset(s) failed. See result output for details.",
                n \o " of " \o ToString(Len(filePaths))
                  \o " changeset(s) failed validation. See result output for details." }

C13_Witness ==
  /\ ReachedFileProcessing
  /\ pc = "exit1"
  /\ Len(results) = 2
  /\ results[1].status = "FAILURE"
  /\ results[2].status = "TIMEOUT"
  /\ failedMsg = "2 of 2 changeset(s) failed. See result output for details."

(* ----------------------- pollTask on its own --------------------------- *)

TerminalStatuses == {"SUCCESS", "FAILURE", "REVOKED"}

\* the k-th reply carried a status, and that status is terminal / is not
TerminalReply(k) == pollLog[k].kind = "ok" /\ pollLog[k].status \in TerminalStatuses
NonTerminalReply(k) == pollLog[k].kind = "ok" /\ pollLog[k].status \notin TerminalStatuses

pollTaskReturned == pc = "poll_return"
pollTaskThrew == pc = "throw"

\* the TaskOutcome the specification gives for a terminal reply
OutcomeOf(reply) ==
  IF reply.status = "SUCCESS"
  THEN [status |-> "SUCCESS",
        result |-> IF reply.result \in {Absent, Falsy} THEN EmptyObject ELSE reply.result,
        error |-> Absent]
  ELSE IF reply.status = "FAILURE"
  THEN [status |-> "FAILURE", result |-> Absent,
        error |-> IF reply.error \in {Absent, ""} THEN "Unknown error" ELSE reply.error]
  ELSE [status |-> "REVOKED", result |-> Absent, error |-> Absent]

\* C14: a terminal status (SUCCESS, FAILURE, REVOKED) is always the last reply
\* pollTask receives: it returns that reply's outcome, having issued exactly as
\* many status requests as the reply's position; after a non-terminal status
\* pollTask has neither thrown nor returned anything but a TIMEOUT that the
\* loop test produced.
C14_FirstTerminalStatusEndsPolling ==
  \A k \in DOMAIN pollLog :
    /\ TerminalReply(k) =>
         /\ k = Len(pollLog)
         /\ pollTaskReturned
         /\ pollCount = k
         /\ opResult = OutcomeOf(pollLog[k])
    /\ (NonTerminalReply(k) /\ k = Len(pollLog)) =>
         /\ ~pollTaskThrew
         /\ pollTaskReturned =>
              (opResult.status = "TIMEOUT" /\ elapsed >= pollingTimeoutSeconds)

C14_Witness ==
  /\ phase = "direct"
  /\ pollTaskReturned
  /\ Len(pollLog) = 3
  /\ pollLog[1] = [kind |-> "ok", status |-> "PENDING"]
  /\ pollLog[2] = [kind |-> "ok", status |-> "STARTED"]
  /\ pollLog[3] = [kind |-> "ok", status |-> "SUCCESS", result |-> "{is_valid:true}"]
  /\ pollCount = 3
  /\ opResult.status = "SUCCESS"
  /\ opResult.result = "{is_valid:true}"

\* ceil(T / 5) for a positive T, zero otherwise
PollsWithin(T) == IF T <= 0 THEN 0 ELSE (T + 4) \div 5

OnlyNonTerminalReplies == \A k \in DOMAIN pollLog : NonTerminalReply(k)

\* C15: as long as every reply carries a non-terminal status, pollTask comes
\* to return, and when it has returned the outcome is TIMEOUT and exactly
\* ceil(T/5) status requests were issued (none when T <= 0).
C15_TimeoutAfterCeilPolls ==
  /\ [](OnlyNonTerminalReplies =>
          /\ pollCount <= PollsWithin(pollingTimeoutSeconds)
          /\ ~pollTaskThrew
          /\ pollTaskReturned =>
               /\ opResult = [status |-> "TIMEOUT", result |-> Absent, error |-> Absent]
               /\ pollCount = PollsWithin(pollingTimeoutSeconds)
               /\ Len(pollLog) = pollCount)
  /\ ([]OnlyNonTerminalReplies => <>pollTaskReturned)

C15_Witness ==
  /\ phase = "direct"
  /\ pollingTimeoutSeconds = 10
  /\ pollTaskReturned
  /\ pollLog = << [kind |-> "ok", status |-> "PENDING"], [kind |-> "ok", status |-> "PENDING"] >>
  /\ pollCount = 2
  /\ opResult.status = "TIMEOUT"

\* C16: a transport-level fault of a status request never makes pollTask
\* throw: whenever pollTask has thrown, the reply that made it throw is not a
\* fault of the transport.
C16_FaultNeverThrows ==
  pollTaskThrew => pollLog[Len(pollLog)].kind # "fault"

\* C17: a non-success HTTP response to a status request is the last reply
\* pollTask receives: it throws the 'Poll failed' error, returns no outcome and
\* issues no further status request.
C17_HttpErrorThrows ==
  \A k \in DOMAIN pollLog :
    pollLog[k].kind = "http_error" =>
      /\ k = Len(pollLog)
      /\ pollTaskThrew
      /\ thrown = PollFailedMessage
      /\ opResult = NoResult
      /\ pollCount = k
      /\ inflight = 0

C17_Witness ==
  /\ phase = "direct"
  /\ pollTaskThrew
  /\ pollLog = << [kind |-> "ok", status |-> "PENDING"], [kind |-> "http_error"] >>
  /\ pollCount = 2
  /\ thrown = PollFailedMessage

(* ------------------ from poller outcome to operation result ------------ *)

\* a step in which validateFile / executeFile turns the value pollTask
\* returned (opResult) into its own return value (opResult')
OperationReturns(operation) ==
  pc = "poll_return" /\ pc' = "op_done" /\ op = operation

IsErrorString(e) == e \notin {Absent, Falsy, ""}

\* C18: executeFile returns the status pollTask returned in all four cases,
\* and for SUCCESS the poller's result unchanged and no error; validateFile
\* returns the status pollTask returned when that is TIMEOUT, FAILURE or
\* REVOKED, together with a non-empty error string.
C18_OperationKeepsPollerStatus ==
  [][ /\ OperationReturns("execute") =>
           /\ opResult.status \in {"SUCCESS", "FAILURE", "REVOKED", "TIMEOUT"}
           /\ opResult'.status = opResult.status
           /\ opResult.status = "SUCCESS" =>
                (opResult'.result = opResult.result /\ opResult'.error = Absent)
      /\ (OperationReturns("validate") /\ opResult.status \in {"TIMEOUT", "FAILURE", "REVOKED"}) =>
           /\ opResult'.status = opResult.status
           /\ IsErrorString(opResult'.error)
    ]_vars

C18_Witness ==
  /\ pc = "op_done"
  /\ op = "execute"
  /\ opResult.status = "REVOKED"
  /\ opResult.error = "Changeset execution was cancelled"
  /\ \E k \in DOMAIN opLog : opLog[k].op = "validate" /\ opLog[k].outcome = "TIMEOUT"

GenericValidationError == "Changeset validation failed. See validation errors above."

\* C19: when the validation poll ends in SUCCESS, validateFile returns SUCCESS
\* with the poller's result and no error if result.is_valid is true, and
\* FAILURE with exactly the generic error string if it is false; no other
\* error string is ever returned for a validation whose poll succeeded.
C19_ValidateChecksIsValid ==
  [][ (OperationReturns("validate") /\ opResult.status = "SUCCESS") =>
        /\ opResult.result = "{is_valid:true}" =>
             opResult' = [status |-> "SUCCESS", result |-> opResult.result, error |-> Absent]
        /\ opResult.result = "{is_valid:false}" =>
             /\ opResult'.status = "FAILURE"
             /\ opResult'.error = GenericValidationError
        /\ opResult'.error \in {Absent, GenericValidationError}
    ]_vars

C19_Witness ==
  /\ pc = "op_done"
  /\ op = "validate"
  /\ opResult = [status |-> "FAILURE", result |-> "{is_valid:false}", error |-> GenericValidationError]
  /\ \E k \in DOMAIN opLog : opLog[k].op = "validate" /\ opLog[k].outcome = "SUCCESS"

(* --------------------------- operator input ---------------------------- *)

\* the operator input is invalid, or the pattern resolves to no file
MissingCredential == inputs.apiKey \in {"", "  "}
MissingBaseAddress == inputs.baseUrl \in {"", "/"}
InvalidBaseAddress == inputs.baseUrl = "not-a-url"
MalformedVariableLine == inputs.changesetVariables = "NOEQUALS"
EmptyPattern == inputs.changesetFile \in {"", "  "}
ResolvesToNoFile ==
  \/ inputs.changesetFile = "missing.yaml"
  \/ inputs.changesetFile = "changesets/*.yaml" /\ inputs.matches = 0

InvalidOperatorInput ==
  \/ MissingCredential
  \/ MissingBaseAddress
  \/ InvalidBaseAddress
  \/ MalformedVariableLine
  \/ EmptyPattern
  \/ ResolvesToNoFile

\* C20: when the credential or the base address is missing, the base address
\* is no URL, a variable line is malformed, the pattern is empty or the
\* pattern resolves to no file, the run never gets past its input handling:
\* no request is issued, no file is attempted, no FileResult and no output is
\* produced, and when the run has ended it has failed with an error message.
C20_InvalidInputFailsBeforeAnyRequest ==
  InvalidOperatorInput =>
    /\ submitLog = << >>
    /\ polled = {}
    /\ inflight = 0
    /\ attempts = << >>
    /\ opLog = << >>
    /\ results = << >>
    /\ outputs = << >>
    /\ filePaths = << >>
    /\ pc \in {"inputs", "run_catch", "exit1"}
    /\ pc # "inputs" => IsErrorString(thrown)
    /\ pc = "exit1" => failedMsg = thrown

C20_Witness ==
  /\ pc = "exit1"
  /\ inputs.apiKey = "key"
  /\ inputs.baseUrl = "https://inprod.example/"
  /\ inputs.changesetVariables = "KEY=VALUE"
  /\ inputs.changesetFile = "changesets/*.yaml"
  /\ inputs.matches = 0
  /\ failedMsg = "No files matched the pattern: changesets/*.yaml"
  /\ submitLog = << >>

(* ----------------------- errors of a single file ----------------------- *)

\* the messages of the errors an operation on one file can throw
FileErrorMessages ==
  { "Failed to connect to InProd API: fetch failed",
    "Validation request failed with status 500: Error",
    "API request failed with status 500: Error",
    "Unexpected end of JSON input",
    "Failed to extract task_id from validation response",
    "Failed to extract task_id from API response",
    "Validation API returned an empty task_id",
    "API returned an empty task_id",
    "Poll failed with status 500: Error",
    "Poll failed: socket hang up",
    "ENOENT: no such file or directory" }

InFileLoop == pc \in {"loop", "phase1_check", "aggregate"}

\* C21: whenever an operation on a file has thrown (submission fault,
\* non-success submission response, malformed or empty task-id envelope, fatal
\* poll error), the next step appends a FileResult for that file with status
\* FAILURE and the error's message, and control stays in the file loop or
\* goes on to the aggregation: the run-level failure is not raised.
C21_FileErrorBecomesFailureResult ==
  [][ pc = "throw" =>
        /\ thrown \in FileErrorMessages
        /\ results' = Append(results, [file |-> filePaths[i], status |-> "FAILURE",
                                       result |-> EmptyObject, error |-> thrown])
        /\ InFileLoop'
        /\ failedMsg' = Absent
        /\ outputs' = outputs
    ]_vars

C21_Witness ==
  /\ pc = "aggregate"
  /\ executionStrategy = "per_file"
  /\ ~failFast
  /\ Len(results) = 2
  /\ results[1] = [file |-> 1, status |-> "FAILURE", result |-> EmptyObject,
                   error |-> "Failed to extract task_id from validation response"]
  /\ results[2].status = "SUCCESS"

(* ------------------------------- inject -------------------------------- *)

InjectReturned == pc = "inject_returned"

EntriesNamed(collection, name) == SelectSeq(collection, LAMBDA e : e.name = name)

NamesOf(variables) == {variables[k].name : k \in DOMAIN variables}

\* C22: after injection, for every name of the VariableSet the collection
\* holds exactly one entry with that name, with environment null, the
\* VariableSet's value, and the mask flag true iff some entry of that name in
\* the document before injection had the mask flag true; no pre-existing
\* entry of that name remains.
C22_InjectOneEntryPerName ==
  InjectReturned =>
    \A name \in NamesOf(callArgs.variables) :
      LET before == EntriesNamed(callArgs.document, name)
          after == EntriesNamed(callResult, name)
      IN /\ Len(after) = 1
         /\ after[1].environment = Absent
         /\ after[1].maskValue = (\E k \in DOMAIN before : before[k].maskValue)
         /\ \E k \in DOMAIN callArgs.variables :
              callArgs.variables[k].name = name /\ after[1].value = callArgs.variables[k].value
         /\ after[1].value # "old"

C22_Witness ==
  /\ InjectReturned
  /\ callArgs.document =
       << [name |-> "X", value |-> "old", maskValue |-> FALSE, environment |-> "1"],
          [name |-> "X", value |-> "old", maskValue |-> TRUE, environment |-> Absent],
          [name |-> "Y", value |-> "old", maskValue |-> FALSE, environment |-> Absent] >>
  /\ callArgs.variables = << [name |-> "X", value |-> "new"] >>
  /\ callResult =
       << [name |-> "Y", value |-> "old", maskValue |-> FALSE, environment |-> Absent],
          [name |-> "X", value |-> "new", maskValue |-> TRUE, environment |-> Absent] >>

(* ----------------------------- resolveFiles ---------------------------- *)

ResolveReturned == pc = "resolveFiles_returned"

\* the returned list holds exactly the matched files
SameFiles(xs, ys) ==
  Len(xs) = Len(ys) /\ {xs[k] : k \in DOMAIN xs} = {ys[k] : k \in DOMAIN ys}

\* a <= b in the lexicographic order of the strings' code units
RECURSIVE LexLeq(_, _)
LexLeq(a, b) ==
  IF Len(a) = 0 THEN TRUE
  ELSE IF Len(b) = 0 THEN FALSE
  ELSE LET ca == codeUnit(SubSeq(a, 1, 1))  cb == codeUnit(SubSeq(b, 1, 1))
       IN IF ca # cb THEN ca < cb
          ELSE LexLeq(SubSeq(a, 2, Len(a)), SubSeq(b, 2, Len(b)))

\* the name with its letters in lower case
LowerCased(str) ==
  [k \in 1..Len(str) |->
     LET c == SubSeq(str, k, k)
     IN IF c = "A" THEN "a" ELSE IF c = "B" THEN "b" ELSE c]

\* alphabetical rank of a lower-case character: digits, then letters
AlphabetRank(c) == CASE c = "1" -> 1 [] c = "a" -> 2 [] c = "b" -> 3

RECURSIVE AlphabeticalLeq(_, _)
AlphabeticalLeq(x, y) ==
  IF x = << >> THEN TRUE
  ELSE IF y = << >> THEN FALSE
  ELSE IF Head(x) # Head(y) THEN AlphabetRank(Head(x)) < AlphabetRank(Head(y))
  ELSE AlphabeticalLeq(Tail(x), Tail(y))

\* C23 (as stated): for a glob pattern the resolved list holds the matched
\* files ordered by base name, lexicographically ascending.
C23_SortedLexicographically ==
  ResolveReturned =>
    /\ SameFiles(callResult, callArgs.matches)
    /\ \A k \in 1..(Len(callResult) - 1) :
         LexLeq(callResult[k].base, callResult[k + 1].base)

\* C23 (amended): for a glob pattern the resolved list holds the matched files
\* ordered by base name alphabetically, letter case ignored (digits before
\* letters); base names that differ only in case come lower case first, and
\* files with the same base name keep the order the glob gave them.
C23_SortedAlphabetically ==
  ResolveReturned =>
    /\ SameFiles(callResult, callArgs.matches)
    /\ \A k \in 1..(Len(callResult) - 1) :
         LET this == callResult[k]  next == callResult[k + 1]
         IN /\ AlphabeticalLeq(LowerCased(this.base), LowerCased(next.base))
            /\ (LowerCased(this.base) = LowerCased(next.base) /\ this.base # next.base) =>
                 LexLeq(next.base, this.base)
            /\ this.base = next.base =>
                 \E m, n \in DOMAIN callArgs.matches :
                   m < n /\ callArgs.matches[m] = this /\ callArgs.matches[n] = next

C23_Witness ==
  /\ ResolveReturned
  /\ callArgs.matches = << [dir |-> "p", base |-> "B"], [dir |-> "q", base |-> "a1"],
                           [dir |-> "q", base |-> "1"] >>
  /\ callResult = << [dir |-> "q", base |-> "1"], [dir |-> "q", base |-> "a1"],
                     [dir |-> "p", base |-> "B"] >>

(* ------------------------- variable lines ------------------------------ *)

ParseEnded == pc \in {"parseVariables_returned", "parseVariables_threw"}

\* position of the first '=' of a line, 0 if there is none
FirstEquals(line) ==
  LET at == {k \in 1..Len(line) : SubSeq(line, k, k) = "="}
  IN IF at = {} THEN 0 ELSE CHOOSE k \in at : \A m \in at : k <= m

IsSpace(c) == c \in {" ", "\t", "\n", "\r"}

\* the text without the white space at its ends
Stripped(text) ==
  LET inked == {k \in 1..Len(text) : ~IsSpace(SubSeq(text, k, k))}
  IN IF inked = {} THEN ""
     ELSE SubSeq(text, CHOOSE k \in inked : \A m \in inked : k <= m,
                       CHOOSE k \in inked : \A m \in inked : k >= m)

\* the lines of the raw input that are neither blank nor comments, stripped
RECURSIVE LinesBetween(_, _)
LinesBetween(text, from) ==
  LET breaks == {k \in from..Len(text) : SubSeq(text, k, k) = "\n"}
  IN IF breaks = {} THEN << SubSeq(text, from, Len(text)) >>
     ELSE LET k == CHOOSE b \in breaks : \A m \in breaks : b <= m
          IN << SubSeq(text, from, k - 1) >> \o LinesBetween(text, k + 1)

IsComment(line) == Len(line) > 0 /\ SubSeq(line, 1, 1) = "#"

MeaningfulLines(raw) ==
  LET stripped == [k \in DOMAIN LinesBetween(raw, 1) |-> Stripped(LinesBetween(raw, 1)[k])]
  IN SelectSeq(stripped, LAMBDA line : line # "" /\ ~IsComment(line))

KeyOfLine(line) == Stripped(SubSeq(line, 1, FirstEquals(line) - 1))
ValueOfLine(line) == Stripped(SubSeq(line, FirstEquals(line) + 1, Len(line)))

\* the value the parsed set gives to a key, Absent if the key is not in it
Lookup(variables, key) ==
  IF \E k \in DOMAIN variables : variables[k].key = key
  THEN variables[CHOOSE k \in DOMAIN variables : variables[k].key = key].value
  ELSE Absent

\* the last meaningful line that sets the key
LastLineFor(lines, key) ==
  lines[CHOOSE k \in DOMAIN lines :
          /\ KeyOfLine(lines[k]) = key
          /\ \A m \in DOMAIN lines : KeyOfLine(lines[m]) = key => m <= k]

\* keys and values of an accepted input are those of its lines
AcceptedAsWritten ==
  pc = "parseVariables_returned" =>
    LET lines == MeaningfulLines(callArgs.raw)
    IN /\ (lines = << >>) => callResult.variables = << >>
       /\ (lines # << >>) =>
            /\ {callResult.variables[k].key : k \in DOMAIN callResult.variables}
                 = {KeyOfLine(lines[k]) : k \in DOMAIN lines}
            /\ \A k \in DOMAIN lines :
                 Lookup(callResult.variables, KeyOfLine(lines[k]))
                   = ValueOfLine(LastLineFor(lines, KeyOfLine(lines[k])))

\* C24 (as stated): the parse fails exactly when some non-blank, non-comment
\* line contains no '='; every line with an '=' is accepted, its key the
\* trimmed text left of the first '=', its value the trimmed rest.
C24_RejectedIffNoEquals ==
  ParseEnded =>
    /\ pc = "parseVariables_threw" <=>
         \E k \in DOMAIN MeaningfulLines(callArgs.raw) :
           FirstEquals(MeaningfulLines(callArgs.raw)[k]) = 0
    /\ AcceptedAsWritten

\* C24 (amended): the parse fails exactly when some non-blank, non-comment
\* line contains no '=' or begins with '=' (its key is empty); every other
\* line is accepted, its key the trimmed text left of the first '=', its value
\* the trimmed rest, further '=' characters included.
C24_RejectedIffNoEqualsOrNoKey ==
  ParseEnded =>
    /\ pc = "parseVariables_threw" <=>
         \E k \in DOMAIN MeaningfulLines(callArgs.raw) :
           FirstEquals(MeaningfulLines(callArgs.raw)[k]) \in {0, 1}
    /\ pc = "parseVariables_threw" =>
         \E k \in DOMAIN MeaningfulLines(callArgs.raw) :
           /\ FirstEquals(MeaningfulLines(callArgs.raw)[k]) \in {0, 1}
           /\ includes(callResult.message, MeaningfulLines(callArgs.raw)[k])
    /\ AcceptedAsWritten

C24_Witness ==
  /\ pc = "parseVariables_returned"
  /\ callArgs.raw = " A = 1 \nA=b=c"
  /\ ~callResult.isNull
  /\ callResult.variables = << [key |-> "A", value |-> "b=c"] >>

(* --------------------------- request body ------------------------------ *)

\* the body sent for each format when no variables are configured
BodyWithoutVariables(format) ==
  IF format = "json" THEN "{\"changeset\":\"name: Test\"}"
  ELSE "changeset: |\n  name: Test"

\* C25: when the changeset_variables input is empty, blank or holds only
\* comment and blank lines, the submission body of either format is the body
\* sent when no variables are configured.
C25_NoVariablesNoInjection ==
  (pc = "buildBody_returned" /\ MeaningfulLines(callArgs.raw) = << >>) =>
    callResult = BodyWithoutVariables(callArgs.format)

(* ------------------------- failed submissions -------------------------- *)

\* the replies with which a submission fails: a transport fault, a non-ok
\* HTTP status, an unexpected envelope, an empty task id
FailedReplies == SubmitResponses \ {"ok"}

\* the k-th submission of the run has come back with a failure
SubmissionFailed(k) ==
  /\ k \in DOMAIN submitReplies
  /\ submitReplies[k] \in FailedReplies

ExecuteSubmittedFor(file) ==
  \E j \in DOMAIN submitLog :
    submitLog[j].op = "execute" /\ submitLog[j].file = file

\* C26: when a submission has failed (transport fault, non-ok HTTP status,
\* unexpected envelope or empty task id), no status request is ever issued
\* for that operation, and in per_file mode no Execute submission is made
\* for a file whose Validate submission failed.
C26_FailedSubmissionIsNeverPolled ==
  \A k \in DOMAIN submitLog :
    SubmissionFailed(k) =>
      /\ [op |-> submitLog[k].op, file |-> submitLog[k].file] \notin polled
      /\ (executionStrategy = "per_file" /\ submitLog[k].op = "validate")
           => ~ExecuteSubmittedFor(submitLog[k].file)

\* a per_file run went on to the second file after the Validate submission
\* of the first came back with an empty task id
C26_Witness ==
  /\ executionStrategy = "per_file"
  /\ Len(submitLog) >= 2
  /\ submitLog[1] = [op |-> "validate", file |-> filePaths[1]]
  /\ submitReplies[1] = "empty_task_id"
  /\ submitLog[2].file = filePaths[2]
  /\ polled # {}

(* ------------------------ what polling retries ------------------------- *)

\* the k-th reply is one the specification calls terminal for the operation:
\* a non-ok HTTP status, a malformed body, a remote FAILURE
EndsOperation(k) ==
  \/ pollLog[k].kind \in {"http_error", "malformed"}
  \/ pollLog[k].kind = "ok" /\ pollLog[k].status = "FAILURE"

\* C27: only faults of the transport are retried while polling: after a
\* non-ok HTTP status, a malformed status response or a remote FAILURE no
\* further status request is issued, so such a reply is the last one received
\* and the last request issued is the one it answers.
C27_OnlyTransportFaultsRetried ==
  \A k \in DOMAIN pollLog :
    EndsOperation(k) => (k = Len(pollLog) /\ pollCount = k)

(* ------------------------ leaving the poll loop ------------------------ *)

pollTaskEnded == pollTaskReturned \/ pollTaskThrew

\* the last reply carried a terminal status, which pollTask returned
ObservedTerminalStatus ==
  /\ pollLog # << >>
  /\ TerminalReply(Len(pollLog))
  /\ pollTaskReturned
  /\ opResult = OutcomeOf(pollLog[Len(pollLog)])

\* the loop test failed and pollTask returned TIMEOUT
BudgetExhausted ==
  /\ elapsed >= pollingTimeoutSeconds
  /\ pollTaskReturned
  /\ opResult = [status |-> "TIMEOUT", result |-> Absent, error |-> Absent]

\* the catch rethrew an error of the last status request whose message
\* contains 'Poll failed'
RethrewPollFailed ==
  /\ pollLog # << >>
  /\ pollLog[Len(pollLog)].kind \in {"http_error", "fault"}
  /\ pollTaskThrew
  /\ includes(thrown, "Poll failed")
  /\ opResult = NoResult

\* C28 as stated: pollTask leaves the polling loop only by observing a
\* terminal remote status or by exhausting the elapsed-time budget.
C28_LeavesOnlyOnTerminalOrTimeout ==
  pollTaskEnded => (ObservedTerminalStatus \/ BudgetExhausted)

\* C28 as the code has it: pollTask leaves the polling loop only by returning
\* the outcome of a terminal remote status, by returning TIMEOUT once the
\* elapsed time has reached the timeout, or by rethrowing an error of the
\* status request whose message contains 'Poll failed' (the error raised for
\* a non-ok HTTP status).
C28_LeavesOnTerminalTimeoutOrPollFailed ==
  pollTaskEnded => (ObservedTerminalStatus \/ BudgetExhausted \/ RethrewPollFailed)

C28_Witness ==
  /\ phase = "direct"
  /\ pollTaskThrew
  /\ pollLog = << [kind |-> "ok", status |-> "STARTED"],
                  [kind |-> "malformed"],
                  [kind |-> "http_error"] >>
  /\ thrown = PollFailedMessage

(* --------------------- faults and the timeout budget ------------------- *)

\* the k-th attempt was retried after an error: a fault of the transport
\* (or a body that could not be read) that the catch did not rethrow
RetriedAttempt(k) ==
  \/ pollLog[k].kind = "fault" /\ ~includes(pollLog[k].message, "Poll failed")
  \/ pollLog[k].kind = "malformed"

\* C29: a faulted attempt costs exactly one interval, like any other attempt:
\* while pollTask is running the elapsed time is 5 seconds per status request
\* issued, never more than ceil(T/5) requests are issued, and when pollTask
\* has returned TIMEOUT exactly ceil(T/5) requests were issued and answered,
\* whether they faulted or returned a non-terminal status.
C29_FaultCostsOneTick ==
  /\ pollCount <= PollsWithin(pollingTimeoutSeconds)
  /\ ~pollTaskThrew => elapsed = pollInterval * pollCount
  /\ (pollTaskReturned /\ opResult.status = "TIMEOUT") =>
       /\ pollCount = PollsWithin(pollingTimeoutSeconds)
       /\ Len(pollLog) = pollCount
       /\ \A k \in DOMAIN pollLog : RetriedAttempt(k) \/ NonTerminalReply(k)

C29_Witness ==
  /\ phase = "direct"
  /\ pollingTimeoutSeconds = 12
  /\ pollTaskReturned
  /\ opResult.status = "TIMEOUT"
  /\ pollCount = 3
  /\ pollLog = << [kind |-> "fault", message |-> "fetch failed"],
                  [kind |-> "ok", status |-> "PENDING"],
                  [kind |-> "fault", message |-> "fetch failed"] >>

(* ---------------------- one budget per operation ----------------------- *)

\* pollTask has been entered for the operation under way and has issued no
\* status request yet
PollStarts ==
  /\ pc = "poll_loop"
  /\ [op |-> op, file |-> filePaths[i]] \notin polled

\* an operation before the one under way was polled until its budget ran out
EarlierOperationTimedOut ==
  \E k \in DOMAIN opLog :
    /\ opLog[k].outcome = "TIMEOUT"
    /\ [op |-> opLog[k].op, file |-> opLog[k].file] \in polled

\* C30: the timeout budget is per operation: every poll of a Validate or an
\* Execute starts with zero elapsed time, so that all ceil(T/5) attempts are
\* available to it whatever time earlier operations or earlier files took.
C30_BudgetPerOperation ==
  PollStarts =>
    /\ elapsed = 0
    /\ PollsWithin(pollingTimeoutSeconds - elapsed) = PollsWithin(pollingTimeoutSeconds)

\* the second file's operation starts its poll at zero after an operation on
\* the first file used its whole budget
C30_Witness ==
  /\ PollStarts
  /\ i = 2
  /\ elapsed = 0
  /\ pollingTimeoutSeconds > 0
  /\ EarlierOperationTimedOut
  /\ opLog[1].file = filePaths[1]

(* --------------------- fail_fast and work in flight -------------------- *)

\* the operation under way: its submission is in flight or it is being polled
OperationInFlight == pc \in {"await_submit", "poll_loop", "await_poll"}

\* the k-th submission was polled, or its poll is about to start, or the
\* timeout leaves no attempt at all
PolledOrAboutToBe(k) ==
  \/ [op |-> submitLog[k].op, file |-> submitLog[k].file] \in polled
  \/ k = Len(submitLog) /\ pc = "poll_loop" /\ elapsed = 0
  \/ pollingTimeoutSeconds <= 0

\* the k-th submission belongs to an operation that has ended
OperationEnded(k) ==
  \E j \in DOMAIN opLog :
    opLog[j].op = submitLog[k].op /\ opLog[j].file = submitLog[k].file

\* C31: with fail_fast set, a submission or poll in progress is never cut
\* short: every submission is answered, every submitted operation is polled,
\* pollTask returns only a terminal status or a TIMEOUT for which the elapsed
\* time reached the timeout, and every operation but the one under way has
\* ended with an outcome or a thrown error.
C31_FailFastNeverCutsShort ==
  failFast =>
    /\ Len(submitReplies) = Len(submitLog) - (IF pc = "await_submit" THEN 1 ELSE 0)
    /\ \A k \in DOMAIN submitReplies :
         submitReplies[k] = "ok" => PolledOrAboutToBe(k)
    /\ pc = "poll_return" =>
         \/ opResult.status \in TerminalStatuses
         \/ opResult.status = "TIMEOUT" /\ elapsed >= pollingTimeoutSeconds
    /\ \A k \in DOMAIN submitLog :
         (k < Len(submitLog) \/ ~(OperationInFlight \/ pc \in {"poll_return", "throw"}))
           => OperationEnded(k)

\* under fail_fast the second file's operation was polled up to its timeout
C31_Witness ==
  /\ failFast
  /\ pc = "poll_return"
  /\ i = 2
  /\ pollingTimeoutSeconds > 0
  /\ opResult.status = "TIMEOUT"
  /\ elapsed >= pollingTimeoutSeconds
  /\ Len(submitLog) >= 2

(* ------------------------- the run-level failure ----------------------- *)

\* the run-level failure has been thrown (and perhaps reported already)
RunFailureRaised == pc \in {"run_catch", "exit1"}

AttemptedIn(ph, f) ==
  \E j \in DOMAIN attempts : attempts[j] = [phase |-> ph, file |-> f]

\* every file the run was to attempt in its last phase has been attempted:
\* all of them, or under fail_fast all up to the file whose failure stopped it
IntendedFilesAttempted ==
  \/ \A n \in DOMAIN filePaths : AttemptedIn(phase, filePaths[n])
  \/ /\ failFast
     /\ results # << >>
     /\ NotSuccess(results[Len(results)])
     /\ attempts[Len(attempts)] = [phase |-> phase, file |-> results[Len(results)].file]
     /\ \A n \in 1..Pos(results[Len(results)].file) : AttemptedIn(phase, filePaths[n])

\* every remote failure, REVOKED and TIMEOUT an operation ended with is in the
\* result list, under its file and with that status
SemanticFailuresRecorded ==
  \A k \in DOMAIN opLog :
    opLog[k].outcome \in {"FAILURE", "REVOKED", "TIMEOUT"} =>
      \E j \in DOMAIN results :
        results[j].file = opLog[k].file /\ results[j].status = opLog[k].outcome

\* C32: the failure of the run is reported once, by the one step that follows
\* its being thrown, and nothing else happens after it is thrown: no request
\* is in flight or issued, no file attempted, no result or output added. When
\* files were processed it is thrown only after every intended file has been
\* attempted, with the semantic failures recorded as FileResults.
C32_RunFailureRaisedOnceAtTheEnd ==
  [][ /\ failedMsg' # failedMsg => (pc = "run_catch" /\ failedMsg = Absent)
      /\ RunFailureRaised =>
           /\ pc = "run_catch" /\ pc' = "exit1"
           /\ failedMsg' = thrown
           /\ inflight = 0
           /\ UNCHANGED << submitLog, submitReplies, polled, inflight,
                           attempts, results, outputs >>
           /\ filePaths # << >> =>
                (IntendedFilesAttempted /\ SemanticFailuresRecorded) ]_vars

\* without fail_fast a run of two files has failed for the TIMEOUT of the
\* first, after the second succeeded
C32_Witness ==
  /\ pc = "exit1"
  /\ ~failFast
  /\ Len(filePaths) = 2
  /\ Len(results) = 2
  /\ results[1].status = "TIMEOUT"
  /\ results[2].status = "SUCCESS"
  /\ failedMsg = results[1].error

(* ----------------------- defaults of the outcome ----------------------- *)

\* a ?? b: b only when a is absent (null or undefined)
NullishOr(a, b) == IF a = Absent THEN b ELSE a

\* C33: on SUCCESS pollTask returns the payload's result whenever there is
\* one and {} only when it is absent; on FAILURE it returns the payload's
\* error whenever there is one and "Unknown error" only when it is absent.
C33_DefaultsOnlyWhenAbsent ==
  (pollTaskReturned /\ pollLog # << >> /\ TerminalReply(Len(pollLog))) =>
    LET reply == pollLog[Len(pollLog)]
    IN /\ reply.status = "SUCCESS" =>
            opResult.result = NullishOr(reply.result, EmptyObject)
       /\ reply.status = "FAILURE" =>
            opResult.error = NullishOr(reply.error, "Unknown error")

(* --------------------- fail_fast and the result list ------------------- *)

\* no file is being processed and none will be: the loops have been left
ProcessingStopped == pc \in {"phase1_check", "aggregate", "run_catch", "exit1", "done"}

\* C34: with fail_fast set, in either strategy, a FileResult that is not
\* SUCCESS is the last entry of the result list, and processing has stopped
\* with it: the file it belongs to is the last one attempted. So the list
\* holds at most one such entry.
C34_FailFastOneFailureLast ==
  failFast =>
    /\ \A k \in DOMAIN results :
         NotSuccess(results[k]) =>
           /\ k = Len(results)
           /\ ProcessingStopped
           /\ attempts[Len(attempts)].file = results[k].file
    /\ Len(SelectSeq(results, NotSuccess)) <= 1

\* the first of two files failed, and the run ended without the second
C34_Witness ==
  /\ failFast
  /\ pc = "exit1"
  /\ Len(filePaths) = 2
  /\ Len(results) = 1
  /\ results[1].file = filePaths[1]
  /\ results[1].status = "REVOKED"
  /\ Len(attempts) = 1

(* ------------------ the result list in per_file mode ------------------- *)

\* rs is bs with at most one entry appended
ExtendsByAtMostOne(rs, bs) ==
  \/ rs = bs
  \/ Len(rs) = Len(bs) + 1 /\ SubSeq(rs, 1, Len(bs)) = bs

\* C35: in per_file mode the i-th FileResult belongs to the i-th resolved
\* file, and every step leaves the list as it was or appends one entry to it:
\* no entry is changed or removed.
C35_ResultsAlignedAppendOnly ==
  [][ phase' = "per_file" =>
        /\ Len(results') <= Len(filePaths')
        /\ \A k \in DOMAIN results' : results'[k].file = filePaths'[k]
        /\ ExtendsByAtMostOne(results', results) ]_vars

\* both files of a per_file run are recorded, the second after it threw
C35_Witness ==
  /\ phase = "per_file"
  /\ Len(filePaths) = 2
  /\ Len(results) = 2
  /\ results[1].file = filePaths[1]
  /\ results[1].status = "SUCCESS"
  /\ results[2] = CaughtResult(filePaths[2], ReadErrorMessage)

(* ------------- validate_first without a validation phase --------------- *)

\* validate_first is asked for, but validation is switched off or is all
\* that is asked for
NoSeparatePhase ==
  executionStrategy = "validate_first" /\ (~validateBeforeExecute \/ validateOnly)

\* the operations processSingleFile performs on a file under the run's toggles
OperationsOfPerFile ==
  IF validateOnly THEN {"validate"}
  ELSE IF validateBeforeExecute THEN {"validate", "execute"}
  ELSE {"execute"}

\* the requests of the per_file loop, stated without the strategy: the run
\* options are used as given, files are attempted once each in resolved
\* order, and the submissions follow the files, with the operations the
\* toggles allow, Validate before Execute on the same file
PerFileRequests ==
  /\ phase \in {"none", "per_file"}
  /\ options = [validateBeforeExecute |-> validateBeforeExecute,
                validateOnly |-> validateOnly]
  /\ \A k \in DOMAIN attempts :
       attempts[k] = [phase |-> "per_file", file |-> filePaths[k]]
  /\ \A k \in DOMAIN submitLog :
       /\ submitLog[k].op \in OperationsOfPerFile
       /\ AttemptedIn("per_file", submitLog[k].file)
       /\ \A j \in 1..(k - 1) :
            \/ Pos(submitLog[j].file) < Pos(submitLog[k].file)
            \/ /\ submitLog[j].file = submitLog[k].file
               /\ submitLog[j].op = "validate"
               /\ submitLog[k].op = "execute"

\* C36: a validate_first run with validate_before_execute off or with
\* validate_only on has no validation phase: it issues the requests of the
\* per_file loop under the same toggles, exactly as a per_file run does, and
\* with validate_before_execute off (and validate_only off) no file is
\* ever validated.
C36_ValidateFirstFallsBackToPerFile ==
  (NoSeparatePhase \/ executionStrategy = "per_file") => PerFileRequests

\* a validate_first run with validation switched off executed both files
\* without validating either
C36_Witness ==
  /\ NoSeparatePhase
  /\ ~validateBeforeExecute /\ ~validateOnly
  /\ pc = "done"
  /\ Len(filePaths) = 2
  /\ submitLog = << [op |-> "execute", file |-> filePaths[1]],
                    [op |-> "execute", file |-> filePaths[2]] >>

(* --------------------------- the last poll ----------------------------- *)

\* the last reply received answers the last poll the timeout allows
LastAllowedPollAnswered ==
  /\ pollLog # << >>
  /\ Len(pollLog) = PollsWithin(pollingTimeoutSeconds)
  /\ pollCount = Len(pollLog)

\* C37: a terminal status received on the last poll the timeout allows is
\* returned as the outcome, although the elapsed time has reached the timeout
\* by then; TIMEOUT is returned only when the last allowed poll was answered
\* and its reply was not a terminal status.
C37_TerminalOnLastPollWins ==
  /\ (LastAllowedPollAnswered /\ TerminalReply(Len(pollLog))) =>
       /\ elapsed >= pollingTimeoutSeconds
       /\ pollTaskReturned
       /\ opResult = OutcomeOf(pollLog[Len(pollLog)])
  /\ (pollTaskReturned /\ opResult.status = "TIMEOUT" /\ pollingTimeoutSeconds > 0) =>
       /\ LastAllowedPollAnswered
       /\ \/ NonTerminalReply(Len(pollLog))
          \/ pollLog[Len(pollLog)].kind \in {"fault", "malformed"}

C37_Witness ==
  /\ phase = "direct"
  /\ pollingTimeoutSeconds = 10
  /\ elapsed = 10
  /\ pollTaskReturned
  /\ pollLog = << [kind |-> "ok", status |-> "PENDING"],
                  [kind |-> "ok", status |-> "FAILURE", error |-> "remote error"] >>
  /\ opResult.status = "FAILURE"
  /\ opResult.error = "remote error"

(* ----------------------- nothing but faults ---------------------------- *)

OnlyFaultReplies == \A k \in DOMAIN pollLog : pollLog[k].kind = "fault"

\* C38: when every status attempt faults at the transport, pollTask does not
\* throw, and what it returns is TIMEOUT, after ceil(T/5) attempts.
C38_AllFaultsEndInTimeout ==
  OnlyFaultReplies =>
    /\ ~pollTaskThrew
    /\ pollTaskReturned =>
         /\ opResult.status = "TIMEOUT"
         /\ pollCount = PollsWithin(pollingTimeoutSeconds)

(* --------------------------- the two outputs --------------------------- *)

\* how many times the output `name` has been set
TimesSet(name) ==
  Cardinality({k \in DOMAIN outputs : outputs[k].name = name})

\* C39: no output is set more than once; a run that reached file processing
\* has, when it ends, set `status` once and `result` once and nothing else,
\* also when it stops after the validation phase; a run that fails on its
\* configuration or on file resolution sets no output.
C39_OutputsSetOnce ==
  /\ TimesSet("status") <= 1
  /\ TimesSet("result") <= 1
  /\ (RunEnded /\ ReachedFileProcessing) =>
       /\ TimesSet("status") = 1
       /\ TimesSet("result") = 1
       /\ Len(outputs) = 2
  /\ ~ReachedFileProcessing => outputs = << >>

\* a validate_first run stopped after its validation phase with both outputs
C39_Witness ==
  /\ pc = "exit1"
  /\ phase = "phase1"
  /\ Len(outputs) = 2
  /\ outputs[1].name = "status"
  /\ outputs[2].name = "result"
  /\ results # << >>

(* ----------------------------- termination ----------------------------- *)

\* the steps of run() that follow the reading of its inputs
NextAfterInputs ==
  \/ Phase1Loop
  \/ Phase1Result
  \/ Phase1Catch
  \/ Phase1Check
  \/ FileLoop
  \/ Submit
  \/ SubmitResponse
  \/ PollLoop
  \/ PollResponse
  \/ ValidateReturn
  \/ ExecuteReturn
  \/ ProcessValidated
  \/ ProcessExecuted
  \/ FileResult
  \/ FileCatch
  \/ Aggregate
  \/ RunCatch

\* the event loop runs every continuation that is ready: every fetch that
\* was issued settles (it returns or faults) and every timer fires
\* most files a pattern matches in the runs followed to their end
MaxLiveFiles == 1

\* the runs followed to their end: credential, base address and variables
\* are in order, the file is missing, is one file, or is a pattern; the
\* timeout is one minute, or is negative
LiveInputs ==
  {in \in RawInputs :
     /\ in.matches <= MaxLiveFiles
     /\ in.apiKey = "key"
     /\ in.baseUrl = "https://inprod.example/"
     /\ in.changesetVariables = "KEY=VALUE"
     /\ in.changesetFile \in {"missing.yaml", "changeset.yaml", "changesets/*.yaml"}}

InitLive == Init /\ inputs \in LiveInputs /\ pollingTimeoutSeconds <= 60

SpecLive == InitLive /\ [][Next]_vars /\ WF_vars(NextAfterInputs)

\* status requests issued so far by the operation under way: one per interval
RequestsOfOperation == elapsed \div pollInterval

\* the operations that were polled are among those submitted
PolledWereSubmitted ==
  \A o \in polled :
    \E k \in DOMAIN submitLog : submitLog[k] = [op |-> o.op, file |-> o.file]

\* no operation is submitted twice
SubmittedOnce ==
  \A j, k \in DOMAIN submitLog : submitLog[j] = submitLog[k] => j = k

====
